---------------------------- MODULE Spec2Model ----------------------------
(***************************************************************************)
(* A model of the retrieval intelligence layer of the menu intelligence    *)
(* suite: the union-find clustering and the pair utilities of              *)
(* src/core/dedup.py, the score fusion of src/core/hybrid.py with          *)
(* min_max_normalize of src/core/utils.py, the ranking metrics of          *)
(* src/core/eval.py, the LabelTagger of src/core/tagging.py, the           *)
(* ContentBasedRecommender of src/core/recommend.py (sequentially and      *)
(* with two concurrent update calls), normalize_text of                    *)
(* src/core/normalize.py and the search endpoint of                        *)
(* src/api/routers/search.py.                                              *)
(*                                                                         *)
(* The stateful objects (UnionFind, LabelTagger, ContentBasedRecommender)  *)
(* are modelled by their fields.  The pure                                 *)
(* functions are modelled as operators; each has a specification of its    *)
(* own whose Init draws the arguments from bounded sets (variable args)    *)
(* and whose single action applies the function (variable result).         *)
(***************************************************************************)
EXTENDS Integers, Sequences, FiniteSets, TLC

VARIABLES
    parent,     \* UnionFind.parent: identifier -> identifier
    rank,       \* UnionFind.rank: identifier -> natural
    keys,       \* insertion order of the keys of UnionFind.parent
    comps,      \* history: the partition induced by the union calls made so far
    args,       \* the arguments of the pure function under check
    result,     \* the value returned by the last call
    label_groups,       \* LabelTagger.label_groups: group -> labels
    label_embeddings,   \* LabelTagger.label_embeddings: group -> labels, embeddings
    ever_set,   \* history: the groups that were ever given labels
    catalog_ids,        \* ContentBasedRecommender.item_ids: the catalog
    item_embeddings,    \* ContentBasedRecommender.item_embeddings, or None
    user_profiles,      \* ContentBasedRecommender.user_profiles: user -> profile
    item_popularity,    \* ContentBasedRecommender.item_popularity, in key order
    interactions,       \* history: user -> the known items of all their updates
    threads     \* the update_user_profile calls in progress: position, locals

vars == <<parent, rank, keys, comps, args, result,
          label_groups, label_embeddings, ever_set,
          catalog_ids, item_embeddings, user_profiles, item_popularity,
          interactions, threads>>

\* The variables of the LabelTagger.
tagger == <<label_groups, label_embeddings, ever_set>>

\* The variables of the ContentBasedRecommender.
recommender == <<catalog_ids, item_embeddings, user_profiles, item_popularity,
                 interactions, threads>>

\* {}: a dict without keys.
EmptyDict == [g \in {} |-> {}]

\* item_embeddings = None, and an embedding matrix by its rows.
NoEmbeddings == [is_none |-> TRUE]

\* ContentBasedRecommender.__init__, no call in progress.
NewRecommender ==
    /\ catalog_ids = <<>>
    /\ item_embeddings = NoEmbeddings
    /\ user_profiles = EmptyDict
    /\ item_popularity = <<>>
    /\ interactions = EmptyDict
    /\ threads = <<>>

None == "None"

\* What a call left behind: nothing yet, a returned value, or a raised error.
NotCalled == [status |-> "none"]

Returned(v) == [status |-> "ok", value |-> v]

Raised(e) == [status |-> "error", error |-> e]

-----------------------------------------------------------------------------
(* Generic helpers                                                         *)

Range(s) == {s[i] : i \in DOMAIN s}

SeqsUpTo(S, n) == UNION {[1..k -> S] : k \in 0..n}

Max(a, b) == IF a >= b THEN a ELSE b

SetMin(S) == CHOOSE m \in S : \A x \in S : m <= x

SetMax(S) == CHOOSE m \in S : \A x \in S : m >= x

IsInjective(s) == \A i, j \in DOMAIN s : s[i] = s[j] => i = j

-----------------------------------------------------------------------------
(* UnionFind (src/core/dedup.py)                                           *)

\* Bound: identifiers handed to the union-find are 1..MaxUFId.
MaxUFId == 3

UFIds == 1..MaxUFId

\* UnionFind.__init__: two empty dicts.
EmptyUF == [parent |-> <<>>, rank |-> <<>>, keys |-> <<>>]

\* self.parent[x] = v  /  self.rank[x] = v  for a key that may be new.
DictSet(d, k, v) == [q \in DOMAIN d \cup {k} |-> IF q = k THEN v ELSE d[q]]

\* UnionFind.find, returning the root and the structure after path compression.
RECURSIVE find(_, _)
find(uf, x) ==
    IF x \notin DOMAIN uf.parent
    THEN [uf   |-> [parent |-> DictSet(uf.parent, x, x),
                    rank   |-> DictSet(uf.rank, x, 0),
                    keys   |-> Append(uf.keys, x)],
          root |-> x]
    ELSE IF uf.parent[x] # x
         THEN LET r == find(uf, uf.parent[x])
              IN  [uf   |-> [r.uf EXCEPT !.parent[x] = r.root],
                   root |-> r.root]
         ELSE [uf |-> uf, root |-> uf.parent[x]]

\* A union that links the arguments themselves instead of their roots.
unionNoRoots(uf, x, y) ==
    LET a == find(uf, x)
        b == find(a.uf, y)
    IN  IF a.root = b.root THEN b.uf
        ELSE [b.uf EXCEPT !.parent[y] = x]

\* UnionFind.union (union by rank).
union(uf, x, y) ==
    LET a == find(uf, x)
        b == find(a.uf, y)
        u == b.uf
        root_x == a.root
        root_y == b.root
    IN  IF root_x = root_y THEN u
        ELSE IF u.rank[root_x] < u.rank[root_y]
             THEN [u EXCEPT !.parent[root_x] = root_y]
        ELSE IF u.rank[root_x] > u.rank[root_y]
             THEN [u EXCEPT !.parent[root_y] = root_x]
        ELSE [u EXCEPT !.parent[root_y] = root_x,
                       !.rank[root_x] = u.rank[root_x] + 1]

\* clusters[root].append(item) on a dict kept as a sequence of
\* [id, items] records in insertion order.
ClusterAppend(clusters, root, item) ==
    IF \E i \in DOMAIN clusters : clusters[i].id = root
    THEN [i \in DOMAIN clusters |->
            IF clusters[i].id = root
            THEN [clusters[i] EXCEPT !.items = Append(@, item)]
            ELSE clusters[i]]
    ELSE Append(clusters, [id |-> root, items |-> <<item>>])

\* The loop of get_clusters over list(self.parent.keys()), from position i.
RECURSIVE get_clusters_loop(_, _, _, _)
get_clusters_loop(uf, items, i, clusters) ==
    IF i > Len(items) THEN [uf |-> uf, clusters |-> clusters]
    ELSE LET r == find(uf, items[i])
         IN  get_clusters_loop(r.uf, items, i + 1,
                               ClusterAppend(clusters, r.root, items[i]))

\* UnionFind.get_clusters: the cluster map and the structure after the finds.
get_clusters(uf) == get_clusters_loop(uf, uf.keys, 1, <<>>)

\* The object's fields as one record.
self == [parent |-> parent, rank |-> rank, keys |-> keys]

\* History variable: the partition "connected by a chain of union calls".
Touch(P, x) == IF x \in UNION P THEN P ELSE P \cup {{x}}

BlockOf(P, x) == CHOOSE B \in P : x \in B

Merge(P, x, y) ==
    LET Q == Touch(Touch(P, x), y)
        bx == BlockOf(Q, x)
        by == BlockOf(Q, y)
    IN  (Q \ {bx, by}) \cup {bx \cup by}

UFInit ==
    /\ parent = EmptyUF.parent
    /\ rank = EmptyUF.rank
    /\ keys = EmptyUF.keys
    /\ comps = {}
    /\ label_groups = EmptyDict
    /\ label_embeddings = EmptyDict
    /\ ever_set = {}
    /\ NewRecommender
    /\ args = None
    /\ result = NotCalled

UFFind(x) ==
    LET r == find(self, x)
    IN  /\ parent' = r.uf.parent
        /\ rank' = r.uf.rank
        /\ keys' = r.uf.keys
        /\ comps' = Touch(comps, x)
        /\ result' = NotCalled
        /\ UNCHANGED <<args, tagger, recommender>>

UFUnion(x, y) ==
    LET u == union(self, x, y)
    IN  /\ parent' = u.parent
        /\ rank' = u.rank
        /\ keys' = u.keys
        /\ comps' = Merge(comps, x, y)
        /\ result' = NotCalled
        /\ UNCHANGED <<args, tagger, recommender>>

UFGetClusters ==
    LET r == get_clusters(self)
    IN  /\ parent' = r.uf.parent
        /\ rank' = r.uf.rank
        /\ keys' = r.uf.keys
        /\ result' = Returned(r.clusters)
        /\ UNCHANGED <<comps, args, tagger, recommender>>

UFNext ==
    \/ \E x \in UFIds : UFFind(x)
    \/ \E x, y \in UFIds : UFUnion(x, y)
    \/ UFGetClusters

SpecUF == UFInit /\ [][UFNext]_vars

\* The clusters of a cluster map as sets of identifiers.
ClusterSets(clusters) == {Range(clusters[i].items) : i \in DOMAIN clusters}

\* C1: the cluster map returned by get_clusters is a partition of exactly the
\* identifiers ever passed to find or union: every such identifier is listed
\* once, in one cluster, and two identifiers share a cluster iff a chain of
\* union calls connects them.
C1_ClustersArePartition ==
    result.status = "ok" =>
        LET clusters == result.value
        IN  /\ ClusterSets(clusters) = comps
            /\ Len(clusters) = Cardinality(comps)
            /\ \A i \in DOMAIN clusters : IsInjective(clusters[i].items)
            /\ \A i, j \in DOMAIN clusters :
                  i # j => Range(clusters[i].items) \cap Range(clusters[j].items) = {}

\* get_clusters has returned the single cluster {1,2,3} of a chain of unions
\* whose tree has a non-root parent pointer left to compress.
C1_Witness ==
    /\ result.status = "ok"
    /\ ClusterSets(result.value) = {{1, 2, 3}}
    /\ comps = {{1, 2, 3}}

-----------------------------------------------------------------------------
(* deduplicate_items (src/core/dedup.py)                                   *)

\* Bounds: at most MaxItems positions, identifiers 1..MaxDedupId.
MaxItems == 4

MaxDedupId == 3

DedupIds == 1..MaxDedupId

Blocks == {"A", "B"}

\* sim_threshold's default, 0.82, in hundredths.
DefaultSimThreshold == 82

\* Cosine similarities in hundredths: just below the threshold and equal to it.
SimVals == {DefaultSimThreshold - 1, DefaultSimThreshold}

\* The index pairs i < j of an m-row similarity matrix.
RowPairs(m) == {pr \in (1..m) \X (1..m) : pr[1] < pr[2]}

\* for item_id in item_ids: uf.find(item_id)
RECURSIVE init_items(_, _, _)
init_items(uf, item_ids, i) ==
    IF i > Len(item_ids) THEN uf
    ELSE init_items(find(uf, item_ids[i]).uf, item_ids, i + 1)

\* for i in range(n): for j in range(i + 1, n): the pairs in loop order,
\* over the positions listed in indices.
RECURSIVE loop_pairs(_, _, _)
loop_pairs(indices, i, j) ==
    IF i > Len(indices) THEN <<>>
    ELSE IF j > Len(indices) THEN loop_pairs(indices, i + 1, i + 2)
    ELSE <<(<<indices[i], indices[j]>>)>> \o loop_pairs(indices, i, j + 1)

\* if sim_matrix[i, j] >= sim_threshold: uf.union(ids[i], ids[j]), over pairs.
RECURSIVE union_similar(_, _, _, _, _, _)
union_similar(uf, item_ids, sim, sim_threshold, pairs, k) ==
    IF k > Len(pairs) THEN uf
    ELSE LET p == pairs[k][1]
             q == pairs[k][2]
         IN  union_similar(
                 IF sim[<<p, q>>] >= sim_threshold
                 THEN union(uf, item_ids[p], item_ids[q]) ELSE uf,
                 item_ids, sim, sim_threshold, pairs, k + 1)

\* block_groups: the block keys in first-occurrence order (zip stops at the
\* shorter of item_ids and blocks).
RECURSIVE block_keys(_, _, _)
block_keys(blocks, n, i) ==
    IF i > n THEN <<>>
    ELSE LET rest == block_keys(blocks, n, i + 1)
         IN  <<blocks[i]>> \o SelectSeq(rest, LAMBDA b : b # blocks[i])

\* block_groups[block]: the positions zipped with that block, ascending.
RECURSIVE block_indices(_, _, _, _)
block_indices(blocks, n, b, i) ==
    IF i > n THEN <<>>
    ELSE (IF blocks[i] = b THEN <<i>> ELSE <<>>) \o block_indices(blocks, n, b, i + 1)

Min(a, b) == IF a <= b THEN a ELSE b

\* The groups the block loop processes: those with at least two positions.
block_groups(item_ids, blocks) ==
    LET n == Min(Len(item_ids), Len(blocks))
        ks == block_keys(blocks, n, 1)
        all == [g \in DOMAIN ks |-> block_indices(blocks, n, ks[g], 1)]
    IN  SelectSeq(all, LAMBDA ix : Len(ix) >= 2)

RECURSIVE concat_pairs(_, _)
concat_pairs(groups, g) ==
    IF g > Len(groups) THEN <<>>
    ELSE loop_pairs(groups[g], 1, 2) \o concat_pairs(groups, g + 1)

\* Filter to only clusters with multiple items.
dedup_clusters(clusters) == SelectSeq(clusters, LAMBDA c : Len(c.items) > 1)

\* deduplicate_items.  embeddings is given by its row count and the cosine
\* similarity of each pair of rows; indexing a row that does not exist
\* raises IndexError.
deduplicate_items(item_ids, rows, sim, sim_threshold, blocks) ==
    LET n == Len(item_ids)
        uf0 == init_items(EmptyUF, item_ids, 1)
        blocked == blocks # <<>>
        groups == block_groups(item_ids, blocks)
        pairs == IF blocked THEN concat_pairs(groups, 1)
                 ELSE loop_pairs([i \in 1..n |-> i], 1, 2)
        indexError == \E k \in DOMAIN pairs : pairs[k][2] > rows
    IN  IF indexError THEN Raised("IndexError")
        ELSE Returned(dedup_clusters(
                 get_clusters(union_similar(uf0, item_ids, sim, sim_threshold,
                                            pairs, 1)).clusters))

\* blocks=None is passed as the value NoBlocks; "if blocks:" also takes an
\* empty list as absent.
NoBlocks == [given |-> FALSE, keys |-> <<>>]

GivenBlocks(b) == [given |-> TRUE, keys |-> b]

BlocksArgs == {NoBlocks} \cup {GivenBlocks(k) : k \in SeqsUpTo(Blocks, MaxItems)}

DedupInit ==
    /\ parent = EmptyUF.parent
    /\ rank = EmptyUF.rank
    /\ keys = EmptyUF.keys
    /\ comps = {}
    /\ label_groups = EmptyDict
    /\ label_embeddings = EmptyDict
    /\ ever_set = {}
    /\ NewRecommender
    /\ \E ids \in SeqsUpTo(DedupIds, MaxItems), m \in 0..MaxItems, b \in BlocksArgs :
          \E s \in [RowPairs(m) -> SimVals] :
              \* an array without rows is modelled for the empty call only
              /\ m = 0 => ids = <<>>
              /\ args = [item_ids |-> ids, rows |-> m, sim |-> s, blocks |-> b]
    /\ result = NotCalled

DedupCall ==
    /\ result.status = "none"
    /\ result' = deduplicate_items(args.item_ids, args.rows, args.sim,
                                   DefaultSimThreshold, args.blocks.keys)
    /\ UNCHANGED <<parent, rank, keys, comps, args, tagger, recommender>>

DedupNext == DedupCall

SpecDedup == DedupInit /\ [][DedupNext]_vars

\* The block keys the input gives an identifier: those zipped with one of its
\* positions.
BlockKeysOf(x) ==
    {args.blocks.keys[p] : p \in {q \in 1..Min(Len(args.item_ids), Len(args.blocks.keys)) :
                                     args.item_ids[q] = x}}

\* C2: with blocks given, no returned cluster contains two items whose block
\* keys differ.  Stated in its weakest form: two members of a cluster that
\* both have block keys have one in common.
C2_NoClusterAcrossBlocks ==
    (result.status = "ok" /\ args.blocks.given) =>
        \A i \in DOMAIN result.value :
            \A x, y \in Range(result.value[i].items) :
                \/ BlockKeysOf(x) = {}
                \/ BlockKeysOf(y) = {}
                \/ BlockKeysOf(x) \cap BlockKeysOf(y) # {}

\* Positions p < q are of the same block (of the whole input without blocks).
SameBlock(p, q) ==
    IF ~args.blocks.given THEN TRUE
    ELSE /\ p <= Len(args.blocks.keys)
         /\ q <= Len(args.blocks.keys)
         /\ args.blocks.keys[p] = args.blocks.keys[q]

\* The graph of the claim: distinct positions of the same block whose
\* similarity is at least the threshold.
Linked(p, q) ==
    /\ p < q
    /\ SameBlock(p, q)
    /\ <<p, q>> \in DOMAIN args.sim
    /\ args.sim[<<p, q>>] >= DefaultSimThreshold

RECURSIVE Component(_)
Component(S) ==
    LET T == S \cup {q \in 1..Len(args.item_ids) :
                        \E p \in S : Linked(p, q) \/ Linked(q, p)}
    IN  IF T = S THEN S ELSE Component(T)

Components == {Component({p}) : p \in 1..Len(args.item_ids)}

\* C3: deduplicate_items returns exactly the connected components of size
\* >= 2 of the graph linking positions i < j (of one block when blocks are
\* given) whose similarity is >= sim_threshold: one cluster per component,
\* listing the identifiers at its positions.
C3_ClustersAreComponents ==
    result.status = "ok" =>
        LET big == {C \in Components : Cardinality(C) >= 2}
        IN  /\ Len(result.value) = Cardinality(big)
            /\ {<<Range(result.value[i].items), Len(result.value[i].items)>> :
                    i \in DOMAIN result.value}
               = {<<{args.item_ids[p] : p \in C}, Cardinality(C)>> : C \in big}

\* The lengths of item_ids, blocks and embeddings agree.
ConsistentLengths ==
    /\ args.rows = Len(args.item_ids)
    /\ args.blocks.given => Len(args.blocks.keys) = Len(args.item_ids)

\* C4: a call with arrays of inconsistent lengths fails with an error and
\* returns no cluster map.
C4_InconsistentLengthsFail ==
    (result.status # "none" /\ ~ConsistentLengths) => result.status = "error"

\* The components claim on well-formed input: distinct identifiers and
\* arrays of one length.
DedupComponentsOnDistinctIds ==
    (IsInjective(args.item_ids) /\ ConsistentLengths) => C3_ClustersAreComponents

-----------------------------------------------------------------------------
(* compute_dedup_pairs (src/core/dedup.py)                                 *)

\* Bound: cluster members are 1..MaxMember, a cluster lists fewer than
\* MaxMember entries.
MaxMember == 4

\* A cluster map of up to two clusters, as a sequence of [id, items] records
\* (the dict in insertion order); any list of members, repeated and shared
\* members included.
ClusterMaps ==
    {[i \in DOMAIN ls |-> [id |-> i, items |-> ls[i]]] :
        ls \in SeqsUpTo(SeqsUpTo(1..MaxMember, MaxMember - 1), 2)}

\* A pair loop that lists every ordered pair of two positions.
RECURSIVE compute_dedup_pairs_both_orders(_)
compute_dedup_pairs_both_orders(clusters) ==
    IF clusters = <<>> THEN <<>>
    ELSE LET items == Head(clusters).items
             lp == loop_pairs(items, 1, 2)
         IN  lp \o [k \in DOMAIN lp |-> <<lp[k][2], lp[k][1]>>]
                \o compute_dedup_pairs_both_orders(Tail(clusters))

\* compute_dedup_pairs: for each cluster, the pairs (items[i], items[j]), i < j.
RECURSIVE compute_dedup_pairs(_)
compute_dedup_pairs(clusters) ==
    IF clusters = <<>> THEN <<>>
    ELSE loop_pairs(Head(clusters).items, 1, 2)
            \o compute_dedup_pairs(Tail(clusters))

PairsInit ==
    /\ parent = EmptyUF.parent
    /\ rank = EmptyUF.rank
    /\ keys = EmptyUF.keys
    /\ comps = {}
    /\ label_groups = EmptyDict
    /\ label_embeddings = EmptyDict
    /\ ever_set = {}
    /\ NewRecommender
    /\ args \in ClusterMaps
    /\ result = NotCalled

PairsCall ==
    /\ result.status = "none"
    /\ result' = Returned(compute_dedup_pairs(args))
    /\ UNCHANGED <<parent, rank, keys, comps, args, tagger, recommender>>

PairsNext == PairsCall

SpecPairs == PairsInit /\ [][PairsNext]_vars

\* Every member the cluster map lists is listed once.
RECURSIVE AllMembers(_)
AllMembers(clusters) ==
    IF clusters = <<>> THEN <<>>
    ELSE Head(clusters).items \o AllMembers(Tail(clusters))

DistinctMembers == IsInjective(AllMembers(args))

\* How many of the returned pairs are (a, b) or (b, a).
Occurrences(pairs, a, b) ==
    Cardinality({k \in DOMAIN pairs : pairs[k] = <<a, b>> \/ pairs[k] = <<b, a>>})

\* C5: for a cluster map listing distinct members, compute_dedup_pairs
\* returns each unordered pair of two distinct members of one cluster exactly
\* once, no pair (a, a), no pair across clusters, and n*(n-1)/2 pairs for a
\* cluster of n members.
C5_AllPairsOnce ==
    (result.status = "ok" /\ DistinctMembers) =>
        LET pairs == result.value
        IN  /\ \A c \in DOMAIN args :
                  \A a, b \in Range(args[c].items) :
                      a # b => Occurrences(pairs, a, b) = 1
            /\ \A k \in DOMAIN pairs : pairs[k][1] # pairs[k][2]
            /\ \A k \in DOMAIN pairs :
                  \E c \in DOMAIN args :
                      {pairs[k][1], pairs[k][2]} \subseteq Range(args[c].items)
            /\ \A c \in DOMAIN args :
                  LET n == Len(args[c].items)
                  IN  2 * Cardinality({k \in DOMAIN pairs :
                            pairs[k][1] \in Range(args[c].items)}) = n * (n - 1)

\* The pairs of two disjoint two-member clusters were returned: one pair each.
C5_Witness ==
    /\ result.status = "ok"
    /\ DistinctMembers
    /\ Len(args) = 2
    /\ Len(args[1].items) = 2
    /\ Len(args[2].items) = 2
    /\ Len(result.value) = 2

-----------------------------------------------------------------------------
(* evaluate_dedup_pairs (src/core/dedup.py)                                *)

\* Bound: the pairs are over identifiers 1..MaxPairId.
MaxPairId == 3

PairValues == (1..MaxPairId) \X (1..MaxPairId)

\* test_dedup_evaluation's input.
TestEvalArgs ==
    [predicted_pairs |-> <<(<<1, 2>>), <<2, 3>>, <<4, 5>>>>,
     true_pairs      |-> <<(<<1, 2>>), <<1, 3>>, <<6, 7>>>>]

\* A pair kept as given.
unsorted_pair(pair) == pair

\* tuple(sorted(pair))
sorted_pair(pair) == IF pair[1] <= pair[2] THEN pair ELSE <<pair[2], pair[1]>>

\* a / b if b > 0 else 0.0, as a fraction.
ratio(a, b) == IF b > 0 THEN [n |-> a, d |-> b] ELSE [n |-> 0, d |-> 1]

\* evaluate_dedup_pairs
evaluate_dedup_pairs(predicted_pairs, true_pairs) ==
    LET pred_set == {sorted_pair(predicted_pairs[k]) : k \in DOMAIN predicted_pairs}
        true_set == {sorted_pair(true_pairs[k]) : k \in DOMAIN true_pairs}
        tp == Cardinality(pred_set \cap true_set)
        fp == Cardinality(pred_set \ true_set)
        fn == Cardinality(true_set \ pred_set)
        precision == ratio(tp, tp + fp)
        recall == ratio(tp, tp + fn)
        \* 2 * precision * recall / (precision + recall)
        f1 == ratio(2 * precision.n * recall.n,
                    precision.n * recall.d + recall.n * precision.d)
    IN  [precision |-> precision, recall |-> recall, f1 |-> f1,
         true_positives |-> tp, false_positives |-> fp, false_negatives |-> fn]

EvalInit ==
    /\ parent = EmptyUF.parent
    /\ rank = EmptyUF.rank
    /\ keys = EmptyUF.keys
    /\ comps = {}
    /\ label_groups = EmptyDict
    /\ label_embeddings = EmptyDict
    /\ ever_set = {}
    /\ NewRecommender
    /\ \/ \E p, t \in SeqsUpTo(PairValues, 2) :
              args = [predicted_pairs |-> p, true_pairs |-> t]
       \/ args = TestEvalArgs
    /\ result = NotCalled

EvalCall ==
    /\ result.status = "none"
    /\ result' = Returned(evaluate_dedup_pairs(args.predicted_pairs, args.true_pairs))
    /\ UNCHANGED <<parent, rank, keys, comps, args, tagger, recommender>>

EvalNext == EvalCall

SpecEval == EvalInit /\ [][EvalNext]_vars

\* A list of pairs as a set of unordered pairs.
Unordered(pairs) == {{pairs[k][1], pairs[k][2]} : k \in DOMAIN pairs}

SwapAt(pairs, i) == [pairs EXCEPT ![i] = <<pairs[i][2], pairs[i][1]>>]

\* C6: the counts are those of the unordered, deduplicated pair sets
\* (TP = |P \cap T|, FP = |P \ T|, FN = |T \ P|), and swapping the elements
\* of a predicted or true pair, or repeating a pair, changes nothing returned.
C6_UnorderedCounts ==
    result.status = "ok" =>
        LET P == Unordered(args.predicted_pairs)
            T == Unordered(args.true_pairs)
            r == result.value
        IN  /\ r.true_positives = Cardinality(P \cap T)
            /\ r.false_positives = Cardinality(P \ T)
            /\ r.false_negatives = Cardinality(T \ P)
            /\ \A i \in DOMAIN args.predicted_pairs :
                  /\ evaluate_dedup_pairs(SwapAt(args.predicted_pairs, i),
                                          args.true_pairs) = r
                  /\ evaluate_dedup_pairs(
                         Append(args.predicted_pairs, args.predicted_pairs[i]),
                         args.true_pairs) = r
            /\ \A i \in DOMAIN args.true_pairs :
                  /\ evaluate_dedup_pairs(args.predicted_pairs,
                                          SwapAt(args.true_pairs, i)) = r
                  /\ evaluate_dedup_pairs(
                         args.predicted_pairs,
                         Append(args.true_pairs, args.true_pairs[i])) = r

\* The test's input was evaluated: TP=1, FP=2, FN=2.
C6_Witness ==
    /\ result.status = "ok"
    /\ args = TestEvalArgs
    /\ result.value.true_positives = 1
    /\ result.value.false_positives = 2
    /\ result.value.false_negatives = 2

-----------------------------------------------------------------------------
(* min_max_normalize (src/core/utils.py), combine_scores                   *)
(* (src/core/hybrid.py).  Scores are integers in units of half the         *)
(* normalizer's epsilon; normalized and combined scores are exact          *)
(* fractions [n, d] with d > 0.                                            *)

\* Bounds: identifiers 1..MaxFusionId, alpha in steps of 1/AlphaDen.
MaxFusionId == 3

AlphaDen == 2

\* The 1e-9 of min_max_normalize, in score units.
Epsilon == 2

\* Raw scores: two within epsilon of each other and one further away.
ScoreVals == {0, 1, 3}

\* alpha, as a numerator over AlphaDen: 0 .. 1 and one step outside on each side.
AlphaNums == -1 .. AlphaDen + 1

Entries == (1..MaxFusionId) \X ScoreVals

\* test_hybrid_scoring's lists, the scores in tenths.
TestSparse == <<(<<1, 100>>), <<2, 50>>, <<3, 20>>>>

TestDense == <<(<<2, 9>>), <<1, 7>>, <<4, 5>>>>

Frac(n, d) == [n |-> n, d |-> d]

FracLess(x, y) == x.n * y.d < y.n * x.d

FracEq(x, y) == x.n * y.d = y.n * x.d

\* {id_: score for id_, score in pairs}: a dict as a sequence of <<key, value>>
\* in insertion order; a repeated key keeps its place and takes the new value.
RECURSIVE dict_of(_)
dict_of(pairs) ==
    IF pairs = <<>> THEN <<>>
    ELSE LET d == dict_of(SubSeq(pairs, 1, Len(pairs) - 1))
             e == pairs[Len(pairs)]
         IN  IF \E i \in DOMAIN d : d[i][1] = e[1]
             THEN [i \in DOMAIN d |-> IF d[i][1] = e[1] THEN e ELSE d[i]]
             ELSE Append(d, e)

dict_keys(d) == [i \in DOMAIN d |-> d[i][1]]

dict_values(d) == [i \in DOMAIN d |-> d[i][2]]

\* dict(zip(keys, values))
dict_zip(ks, vs) == [i \in DOMAIN ks |-> <<ks[i], vs[i]>>]

\* A lookup whose default is 1.0.
dict_get_default_one(d, k) ==
    IF \E i \in DOMAIN d : d[i][1] = k
    THEN d[CHOOSE i \in DOMAIN d : d[i][1] = k][2]
    ELSE Frac(1, 1)

\* d.get(k, 0.0) on a dict of fractions.
dict_get(d, k) ==
    IF \E i \in DOMAIN d : d[i][1] = k
    THEN d[CHOOSE i \in DOMAIN d : d[i][1] = k][2]
    ELSE Frac(0, 1)

\* A normalizer under which a list of near-equal scores vanishes.
min_max_normalize_vanishing(scores) ==
    IF scores = <<>> THEN <<>>
    ELSE LET min_score == SetMin(Range(scores))
             max_score == SetMax(Range(scores))
         IN  IF max_score - min_score < Epsilon
             THEN [i \in DOMAIN scores |-> Frac(0, 1)]
             ELSE [i \in DOMAIN scores |->
                      Frac(scores[i] - min_score, max_score - min_score)]

\* min_max_normalize
min_max_normalize(scores) ==
    IF scores = <<>> THEN <<>>
    ELSE LET min_score == SetMin(Range(scores))
             max_score == SetMax(Range(scores))
         IN  IF max_score - min_score < Epsilon
             THEN [i \in DOMAIN scores |-> Frac(1, 1)]
             ELSE [i \in DOMAIN scores |->
                      Frac(scores[i] - min_score, max_score - min_score)]

\* The identifiers of the sparse list alone.
all_ids_sparse_only(sparse_dict, dense_dict) == Range(dict_keys(sparse_dict))

\* all_ids = set(sparse_dict.keys()) | set(dense_dict.keys())
all_ids(sparse_dict, dense_dict) ==
    Range(dict_keys(sparse_dict)) \cup Range(dict_keys(dense_dict))

\* The weights exchanged: (1 - alpha) * s + alpha * d.
combined_score_swapped(alpha, s, d) ==
    Frac((AlphaDen - alpha) * s.n * d.d + alpha * d.n * s.d, AlphaDen * s.d * d.d)

\* alpha * s + (1 - alpha) * d
combined_score(alpha, s, d) ==
    Frac(alpha * s.n * d.d + (AlphaDen - alpha) * d.n * s.d, AlphaDen * s.d * d.d)

\* A sort that puts the lowest score first.
RECURSIVE sorted_ascending(_)
sorted_ascending(items) ==
    IF items = <<>> THEN <<>>
    ELSE LET rest == sorted_ascending(SubSeq(items, 1, Len(items) - 1))
             e == items[Len(items)]
             k == Cardinality({i \in DOMAIN rest : ~FracLess(e[2], rest[i][2])})
         IN  SubSeq(rest, 1, k) \o <<e>> \o SubSeq(rest, k + 1, Len(rest))

\* sorted(items, key=lambda x: x[1], reverse=True): stable, so entries with
\* equal scores keep the order they had in items.
RECURSIVE sorted_reverse(_)
sorted_reverse(items) ==
    IF items = <<>> THEN <<>>
    ELSE LET rest == sorted_reverse(SubSeq(items, 1, Len(items) - 1))
             e == items[Len(items)]
             k == Cardinality({i \in DOMAIN rest : ~FracLess(rest[i][2], e[2])})
         IN  SubSeq(rest, 1, k) \o <<e>> \o SubSeq(rest, k + 1, Len(rest))

\* The orders in which "for id_ in all_ids" may visit a set: any.
IterationOrders(S) ==
    {o \in [1..Cardinality(S) -> S] : \A i, j \in DOMAIN o : o[i] = o[j] => i = j}

\* combine_scores, for the order in which the set all_ids is iterated.
combine_scores(sparse_scores, dense_scores, alpha, order) ==
    LET sparse_dict0 == dict_of(sparse_scores)
        dense_dict0 == dict_of(dense_scores)
        sparse_dict == IF sparse_scores # <<>>
                       THEN dict_zip(dict_keys(sparse_dict0),
                                     min_max_normalize(dict_values(sparse_dict0)))
                       ELSE sparse_dict0
        dense_dict == IF dense_scores # <<>>
                      THEN dict_zip(dict_keys(dense_dict0),
                                    min_max_normalize(dict_values(dense_dict0)))
                      ELSE dense_dict0
        combined == [i \in DOMAIN order |->
                        <<order[i], combined_score(alpha,
                                                   dict_get(sparse_dict, order[i]),
                                                   dict_get(dense_dict, order[i]))>>]
    IN  sorted_reverse(combined)

FusionInit ==
    /\ parent = EmptyUF.parent
    /\ rank = EmptyUF.rank
    /\ keys = EmptyUF.keys
    /\ comps = {}
    /\ label_groups = EmptyDict
    /\ label_embeddings = EmptyDict
    /\ ever_set = {}
    /\ NewRecommender
    /\ \E a \in AlphaNums :
          \/ \E sp, de \in SeqsUpTo(Entries, 2) :
                args = [sparse_scores |-> sp, dense_scores |-> de, alpha |-> a]
          \/ args = [sparse_scores |-> TestSparse, dense_scores |-> TestDense,
                     alpha |-> a]
    /\ result = NotCalled

FusionCall ==
    /\ result.status = "none"
    /\ \E order \in IterationOrders(all_ids(dict_of(args.sparse_scores),
                                              dict_of(args.dense_scores))) :
          result' = Returned(combine_scores(args.sparse_scores, args.dense_scores,
                                            args.alpha, order))
    /\ UNCHANGED <<parent, rank, keys, comps, args, tagger, recommender>>

FusionNext == FusionCall

SpecFusion == FusionInit /\ [][FusionNext]_vars

\* What the claims speak of, read off the argument lists themselves.
ListIds(list) == {list[k][1] : k \in DOMAIN list}

\* The raw score a list gives an identifier (its last entry for it).
RawScore(list, id) ==
    list[SetMax({k \in DOMAIN list : list[k][1] = id})][2]

Lowest(list) == SetMin({RawScore(list, x) : x \in ListIds(list)})

Highest(list) == SetMax({RawScore(list, x) : x \in ListIds(list)})

Spread(list) == Highest(list) - Lowest(list)

\* The min-max normalized score of an identifier in a list; 0 when the list
\* does not have it.
Normalized(list, id) ==
    IF id \notin ListIds(list) THEN Frac(0, 1)
    ELSE IF Spread(list) < Epsilon THEN Frac(1, 1)
    ELSE Frac(RawScore(list, id) - Lowest(list), Spread(list))

ranked == result.value

PosOf(id) == CHOOSE k \in DOMAIN ranked : ranked[k][1] = id

\* C7: the result holds every identifier of either list exactly once, so its
\* length is the number of distinct identifiers, also when a list repeats one.
C7_OneEntryPerIdentifier ==
    result.status = "ok" =>
        LET ids == ListIds(args.sparse_scores) \cup ListIds(args.dense_scores)
        IN  /\ Len(ranked) = Cardinality(ids)
            /\ \A id \in ids :
                  Cardinality({k \in DOMAIN ranked : ranked[k][1] = id}) = 1

\* The sparse list repeats an identifier that the dense list has too, next
\* to a second identifier: two results.
C7_Witness ==
    /\ result.status = "ok"
    /\ Len(args.sparse_scores) = 2
    /\ args.sparse_scores[1][1] = args.sparse_scores[2][1]
    /\ args.sparse_scores[1][2] # args.sparse_scores[2][2]
    /\ Len(args.dense_scores) = 2
    /\ args.sparse_scores[1][1] \in ListIds(args.dense_scores)
    /\ Len(ranked) = 2

\* C8 as amended: the result is sorted by non-increasing combined score.
C8_SortedByCombinedScore ==
    result.status = "ok" =>
        \A k \in 1..(Len(ranked) - 1) : ~FracLess(ranked[k][2], ranked[k + 1][2])

\* Three results: a strict descent, then a tie.
C8_Witness ==
    /\ result.status = "ok"
    /\ Len(ranked) = 3
    /\ FracLess(ranked[2][2], ranked[1][2])
    /\ FracEq(ranked[2][2], ranked[3][2])

\* C8: the result is sorted by non-increasing combined score, and two
\* identifiers with equal combined score are ordered by descending raw
\* sparse score, then by identifier.  (Of two tied neighbours that are both
\* in the sparse list, or both not, the first has the higher raw sparse
\* score or, at equal raw score, the smaller identifier.)
C8_TiesBySparseThenIdentifier ==
    (result.status = "ok" /\ args.alpha \in 0..AlphaDen) =>
        \A k \in 1..(Len(ranked) - 1) :
            /\ ~FracLess(ranked[k][2], ranked[k + 1][2])
            /\ FracEq(ranked[k][2], ranked[k + 1][2]) =>
                  LET a == ranked[k][1]
                      b == ranked[k + 1][1]
                      sp == args.sparse_scores
                  IN  \/ (a \in ListIds(sp)) # (b \in ListIds(sp))
                      \/ /\ a \in ListIds(sp)
                         /\ b \in ListIds(sp)
                         /\ \/ RawScore(sp, a) > RawScore(sp, b)
                            \/ RawScore(sp, a) = RawScore(sp, b) /\ a < b
                      \/ /\ a \notin ListIds(sp)
                         /\ b \notin ListIds(sp)
                         /\ a < b

\* C9: for non-empty lists and alpha in [0,1] every identifier's combined
\* score is alpha*sparseNorm + (1-alpha)*denseNorm, a list that does not have
\* the identifier counting 0: alpha*sparseNorm for a sparse-only identifier,
\* (1-alpha)*denseNorm for a dense-only one.
C9_WeightedSumOfNormalized ==
    (/\ result.status = "ok"
     /\ args.sparse_scores # <<>>
     /\ args.dense_scores # <<>>
     /\ args.alpha \in 0..AlphaDen) =>
        \A k \in DOMAIN ranked :
            LET id == ranked[k][1]
                c == ranked[k][2]
                S == Normalized(args.sparse_scores, id)
                D == Normalized(args.dense_scores, id)
            IN  /\ c.n * (AlphaDen * S.d * D.d)
                     = c.d * (args.alpha * S.n * D.d + (AlphaDen - args.alpha) * D.n * S.d)
                /\ id \notin ListIds(args.dense_scores) =>
                      c.n * (AlphaDen * S.d) = c.d * (args.alpha * S.n)
                /\ id \notin ListIds(args.sparse_scores) =>
                      c.n * (AlphaDen * D.d) = c.d * ((AlphaDen - args.alpha) * D.n)

\* alpha strictly between 0 and 1; a sparse-only and a dense-only identifier
\* both got a non-zero score.
C9_Witness ==
    /\ result.status = "ok"
    /\ args.alpha \in 1..(AlphaDen - 1)
    /\ \E i, j \in DOMAIN ranked :
          /\ ranked[i][1] \in ListIds(args.sparse_scores) \ ListIds(args.dense_scores)
          /\ ranked[j][1] \in ListIds(args.dense_scores) \ ListIds(args.sparse_scores)
          /\ ranked[i][2].n > 0
          /\ ranked[j][2].n > 0

\* The ranking follows list "own" alone: a strictly higher score puts an
\* identifier first (when guard allows), and an identifier only in the other
\* list scores 0.
FollowsOnly(own, other, guard(_)) ==
    /\ \A a, b \in ListIds(own) :
          (RawScore(own, a) > RawScore(own, b) /\ guard(own)) => PosOf(a) < PosOf(b)
    /\ \A id \in ListIds(other) \ ListIds(own) : ranked[PosOf(id)][2].n = 0

IsTestInput == args.sparse_scores = TestSparse /\ args.dense_scores = TestDense

\* The first result for the test's lists: id 1 at alpha=1.0, id 2 at alpha=0.0.
TestInputTop ==
    IsTestInput =>
        /\ args.alpha = AlphaDen => ranked[1][1] = 1
        /\ args.alpha = 0 => ranked[1][1] = 2

\* C10: with alpha = 1.0 a strictly higher raw sparse score always puts an
\* identifier first and dense-only identifiers score 0; symmetrically for
\* the dense list with alpha = 0.0; the test's lists give id 1 and id 2.
C10_PureRanking ==
    result.status = "ok" =>
        /\ args.alpha = AlphaDen =>
              FollowsOnly(args.sparse_scores, args.dense_scores, LAMBDA l : TRUE)
        /\ args.alpha = 0 =>
              FollowsOnly(args.dense_scores, args.sparse_scores, LAMBDA l : TRUE)
        /\ TestInputTop

\* A strictly higher normalized score in list "own" puts an identifier first.
FollowsNormalized(own) ==
    \A a, b \in ListIds(own) :
        FracLess(Normalized(own, b), Normalized(own, a)) => PosOf(a) < PosOf(b)

\* C10 as amended: with alpha = 1.0 a strictly higher min-max normalized
\* sparse score puts an identifier first, which in exact arithmetic is the
\* order of the raw sparse scores whenever these are not all within epsilon
\* of each other (otherwise all are normalized to 1.0 and tie), and
\* dense-only identifiers score 0; symmetrically for the dense list with
\* alpha = 0.0; the test's lists give id 1 and id 2.
C10_PureRankingOutsideEpsilon ==
    result.status = "ok" =>
        /\ args.alpha = AlphaDen =>
              /\ FollowsOnly(args.sparse_scores, args.dense_scores,
                             LAMBDA l : Spread(l) >= Epsilon)
              /\ FollowsNormalized(args.sparse_scores)
        /\ args.alpha = 0 =>
              /\ FollowsOnly(args.dense_scores, args.sparse_scores,
                             LAMBDA l : Spread(l) >= Epsilon)
              /\ FollowsNormalized(args.dense_scores)
        /\ TestInputTop

\* The test's lists at alpha = 1.0: id 1 first and id 2 second, although the
\* dense list scores 2 above 1.
C10_Witness ==
    /\ result.status = "ok"
    /\ IsTestInput
    /\ args.alpha = AlphaDen
    /\ ranked[1][1] = 1
    /\ ranked[2][1] = 2

\* A list whose raw scores are all equal (a single entry included).
Uniform(list) ==
    list # <<>> /\ \A i, j \in DOMAIN list : list[i][2] = list[j][2]

\* c = alpha * s + (1 - alpha) * d, for fractions c, s, d.
IsWeightedSum(c, alpha, s, d) ==
    c.n * (AlphaDen * s.d * d.d)
        = c.d * (alpha * s.n * d.d + (AlphaDen - alpha) * d.n * s.d)

\* C11: an empty list contributes 0 to every combined score, and a
\* non-empty list whose raw scores are all equal gives each of its members
\* its full weight: alpha for the sparse list, 1 - alpha for the dense one.
C11_EmptyAndUniformLists ==
    result.status = "ok" =>
        \A k \in DOMAIN ranked :
            LET id == ranked[k][1]
                c == ranked[k][2]
                sp == args.sparse_scores
                de == args.dense_scores
                S == Normalized(sp, id)
                D == Normalized(de, id)
            IN  /\ sp = <<>> => IsWeightedSum(c, args.alpha, Frac(0, 1), D)
                /\ de = <<>> => IsWeightedSum(c, args.alpha, S, Frac(0, 1))
                /\ (Uniform(sp) /\ id \in ListIds(sp)) =>
                      IsWeightedSum(c, args.alpha, Frac(1, 1), D)
                /\ (Uniform(de) /\ id \in ListIds(de)) =>
                      IsWeightedSum(c, args.alpha, S, Frac(1, 1))

\* A single sparse entry and two equally scored dense entries, alpha
\* strictly between 0 and 1: the identifier in both lists scores 1, the
\* dense-only one 1 - alpha.
C11_Witness ==
    /\ result.status = "ok"
    /\ args.alpha \in 1..(AlphaDen - 1)
    /\ Len(args.sparse_scores) = 1
    /\ Len(args.dense_scores) = 2
    /\ Uniform(args.dense_scores)
    /\ Len(ranked) = 2
    /\ FracEq(ranked[1][2], Frac(1, 1))
    /\ FracEq(ranked[2][2], Frac(AlphaDen - args.alpha, AlphaDen))

-----------------------------------------------------------------------------
(* The ranking metrics of src/core/eval.py.  A metric value is an exact    *)
(* fraction [n, d]; np.mean is the sum over the length.  The gain discount *)
(* 1/log2(i + 1) is kept in hundredths.                                    *)

\* Bounds: at most MaxQueries queries, cutoffs 0..MaxK.
MaxQueries == 2

MaxK == 2

\* The identifiers of the enumerated queries.
ItemIds == {1, 2}

\* Ranked prediction lists: empty, one item, two items in either order,
\* one item twice.
PredLists == {<<>>, <<1>>, <<2>>, <<1, 2>>, <<2, 1>>, <<1, 1>>}

\* Relevant-item lists: none, one item, both items (one listed twice).
TruthLists == {<<>>, <<1>>, <<1, 2, 1>>}

\* The cutoff the tests use.
TestK == 5

\* test_recall_at_k, test_ndcg_at_k (both rankings) and test_empty_predictions.
TestMetricsArgs ==
    {[predictions |-> <<(<<1, 2, 3, 4, 5>>), <<10, 11, 12>>>>,
      ground_truth |-> <<(<<1, 3, 6>>), <<11, 13>>>>],
     [predictions |-> <<(<<1, 2, 3, 4, 5>>)>>, ground_truth |-> <<(<<1, 3, 5>>)>>],
     [predictions |-> <<(<<1, 3, 5, 2, 4>>)>>, ground_truth |-> <<(<<1, 3, 5>>)>>],
     [predictions |-> <<(<<>>)>>, ground_truth |-> <<(<<1, 2, 3>>)>>]}

MetricNames ==
    {"recall_at_k", "precision_at_k", "mean_reciprocal_rank", "ndcg_at_k",
     "per_query_metrics"}

\* x + y; fractions over one denominator keep it.
FracAdd(x, y) ==
    IF x.d = y.d THEN Frac(x.n + y.n, x.d)
    ELSE Frac(x.n * y.d + y.n * x.d, x.d * y.d)

\* x <= y
FracLeq(x, y) ==
    IF x.d = y.d THEN x.n <= y.n ELSE x.n * y.d <= y.n * x.d

RECURSIVE FracSum(_)
FracSum(xs) ==
    IF xs = <<>> THEN Frac(0, 1)
    ELSE IF Len(xs) = 1 THEN xs[1]
    ELSE FracAdd(FracSum(SubSeq(xs, 1, Len(xs) - 1)), xs[Len(xs)])

\* float(np.mean(xs)) if xs else 0.0
mean_or_zero(xs) ==
    IF xs = <<>> THEN Frac(0, 1)
    ELSE LET s == FracSum(xs) IN Frac(s.n, s.d * Len(xs))

\* pred[:k] for k >= 0
top_k(pred, k) == SubSeq(pred, 1, IF k < Len(pred) THEN k ELSE Len(pred))

\* The positions of zip(predictions, ground_truth).
zipped(predictions, ground_truth) ==
    1..(IF Len(predictions) < Len(ground_truth)
        THEN Len(predictions) ELSE Len(ground_truth))

\* A loop that scores the queries with an empty relevant set too.
all_queries(predictions, ground_truth) ==
    [q \in zipped(predictions, ground_truth) |-> q]

\* The queries the loop does not skip: "if not true_set: continue".
scored_queries(predictions, ground_truth) ==
    SelectSeq([q \in zipped(predictions, ground_truth) |-> q],
              LAMBDA q : Range(ground_truth[q]) # {})

\* enumerate(pred, start=1): the rank of the first relevant item, 0 if none.
first_hit_rank(pred, true_set) ==
    IF \E r \in DOMAIN pred : pred[r] \in true_set
    THEN SetMin({r \in DOMAIN pred : pred[r] \in true_set})
    ELSE 0

\* len(pred_set & true_set)
hits(pred, true, k) == Cardinality(Range(top_k(pred, k)) \cap Range(true))

\* A discount that grows with the position.
DiscountRising == <<39, 43, 50, 63, 100>>

\* 1.0 / np.log2(i + 1) for i = 1..5, in hundredths.
Discount == <<100, 63, 50, 43, 39>>

\* sum(1.0 / np.log2(i + 1) for i in range(1, m + 1))
RECURSIVE ideal_dcg(_)
ideal_dcg(m) == IF m <= 0 THEN 0 ELSE ideal_dcg(m - 1) + Discount[m]

\* A common denominator of the per-query NDCG values: the ideal DCGs of
\* one, two and three relevant items.
NdcgDen == ideal_dcg(1) * ideal_dcg(2) * ideal_dcg(3)

\* The DCG loop over enumerate(pred[:k], start=1), up to position i.
RECURSIVE dcg_loop(_, _, _)
dcg_loop(pred_k, true_set, i) ==
    IF i = 0 THEN 0
    ELSE dcg_loop(pred_k, true_set, i - 1)
            + (IF pred_k[i] \in true_set THEN Discount[i] ELSE 0)

\* The check every averaged metric starts with.
same_length(predictions, ground_truth) == Len(predictions) = Len(ground_truth)

recall_at_k(predictions, ground_truth, k) ==
    IF ~same_length(predictions, ground_truth) THEN Raised("ValueError")
    ELSE LET kept == scored_queries(predictions, ground_truth)
             recalls == [i \in DOMAIN kept |->
                            Frac(hits(predictions[kept[i]], ground_truth[kept[i]], k),
                                 Cardinality(Range(ground_truth[kept[i]])))]
         IN  Returned(mean_or_zero(recalls))

mean_reciprocal_rank(predictions, ground_truth) ==
    IF ~same_length(predictions, ground_truth) THEN Raised("ValueError")
    ELSE LET kept == scored_queries(predictions, ground_truth)
             reciprocal_ranks ==
                 [i \in DOMAIN kept |->
                     LET r == first_hit_rank(predictions[kept[i]],
                                             Range(ground_truth[kept[i]]))
                     IN  IF r > 0 THEN Frac(1, r) ELSE Frac(0, 1)]
         IN  Returned(mean_or_zero(reciprocal_ranks))

\* A precision over the number of items retrieved.
precision_over_retrieved(predictions, ground_truth, k) ==
    IF ~same_length(predictions, ground_truth) THEN Raised("ValueError")
    ELSE LET kept == scored_queries(predictions, ground_truth)
             precisions ==
                 [i \in DOMAIN kept |->
                     LET n == Len(top_k(predictions[kept[i]], k))
                     IN  IF n > 0
                         THEN Frac(hits(predictions[kept[i]], ground_truth[kept[i]], k), n)
                         ELSE Frac(0, 1)]
         IN  Returned(mean_or_zero(precisions))

precision_at_k(predictions, ground_truth, k) ==
    IF ~same_length(predictions, ground_truth) THEN Raised("ValueError")
    ELSE LET kept == scored_queries(predictions, ground_truth)
             precisions ==
                 [i \in DOMAIN kept |->
                     IF k > 0
                     THEN Frac(hits(predictions[kept[i]], ground_truth[kept[i]], k), k)
                     ELSE Frac(0, 1)]
         IN  Returned(mean_or_zero(precisions))

\* One query's dcg / idcg, over the common denominator.
ndcg_of(pred, true, k) ==
    LET true_set == Range(true)
        pred_k == top_k(pred, k)
        dcg == dcg_loop(pred_k, true_set, Len(pred_k))
        m == IF Cardinality(true_set) < k THEN Cardinality(true_set) ELSE k
        idcg == ideal_dcg(m)
    IN  IF idcg > 0 THEN Frac(dcg * (NdcgDen \div idcg), NdcgDen)
        ELSE Frac(0, NdcgDen)

ndcg_at_k(predictions, ground_truth, k) ==
    IF ~same_length(predictions, ground_truth) THEN Raised("ValueError")
    ELSE LET kept == scored_queries(predictions, ground_truth)
             ndcgs == [i \in DOMAIN kept |->
                          ndcg_of(predictions[kept[i]], ground_truth[kept[i]], k)]
         IN  Returned(mean_or_zero(ndcgs))

\* per_query_metrics with query_ids=None: the identifier "q<i>" is kept as
\* i, and a first_hit_rank of None as 0.
per_query_metrics(predictions, ground_truth, k) ==
    Returned([q \in zipped(predictions, ground_truth) |->
        LET pred == predictions[q]
            true == ground_truth[q]
            true_set == Range(true)
        IN  [query_id |-> q - 1,
             num_relevant |-> Cardinality(true_set),
             hit |-> IF hits(pred, true, k) > 0 THEN 1 ELSE 0,
             first_hit_rank |-> first_hit_rank(pred, true_set),
             recall |-> IF true_set # {}
                        THEN Frac(hits(pred, true, k), Cardinality(true_set))
                        ELSE Frac(0, 1),
             precision |-> IF k > 0 THEN Frac(hits(pred, true, k), k)
                           ELSE Frac(0, 1)]])

MetricsInit ==
    /\ parent = EmptyUF.parent
    /\ rank = EmptyUF.rank
    /\ keys = EmptyUF.keys
    /\ comps = {}
    /\ label_groups = EmptyDict
    /\ label_embeddings = EmptyDict
    /\ ever_set = {}
    /\ NewRecommender
    /\ \E fn \in MetricNames :
          \/ \E p \in SeqsUpTo(PredLists, MaxQueries),
                t \in SeqsUpTo(TruthLists, MaxQueries), k \in 0..MaxK :
                /\ fn = "mean_reciprocal_rank" => k = 0
                /\ args = [fn |-> fn, predictions |-> p, ground_truth |-> t, k |-> k]
          \/ \E a \in TestMetricsArgs :
                args = [fn |-> fn, predictions |-> a.predictions,
                        ground_truth |-> a.ground_truth, k |-> TestK]
    /\ result = NotCalled

MetricsReturn(fn, r) ==
    /\ result.status = "none"
    /\ args.fn = fn
    /\ result' = r
    /\ UNCHANGED <<parent, rank, keys, comps, args, tagger, recommender>>

RecallCall ==
    MetricsReturn("recall_at_k",
                  recall_at_k(args.predictions, args.ground_truth, args.k))

PrecisionCall ==
    MetricsReturn("precision_at_k",
                  precision_at_k(args.predictions, args.ground_truth, args.k))

MRRCall ==
    MetricsReturn("mean_reciprocal_rank",
                  mean_reciprocal_rank(args.predictions, args.ground_truth))

NdcgCall ==
    MetricsReturn("ndcg_at_k",
                  ndcg_at_k(args.predictions, args.ground_truth, args.k))

PerQueryCall ==
    MetricsReturn("per_query_metrics",
                  per_query_metrics(args.predictions, args.ground_truth, args.k))

MetricsNext ==
    \/ RecallCall
    \/ PrecisionCall
    \/ MRRCall
    \/ NdcgCall
    \/ PerQueryCall

SpecMetrics == MetricsInit /\ [][MetricsNext]_vars

\* C12: every metrics function fails with an error when predictions and
\* ground_truth have different lengths; none returns a value.
C12_MismatchedLengthsFail ==
    (/\ result.status # "none"
     /\ Len(args.predictions) # Len(args.ground_truth)) =>
        result.status = "error"

\* The four metrics that average over the queries.
AveragedMetrics ==
    {"recall_at_k", "precision_at_k", "mean_reciprocal_rank", "ndcg_at_k"}

\* The metric a state's call computes, on other arguments.
Metric(fn, predictions, ground_truth, k) ==
    CASE fn = "recall_at_k" -> recall_at_k(predictions, ground_truth, k)
      [] fn = "precision_at_k" -> precision_at_k(predictions, ground_truth, k)
      [] fn = "mean_reciprocal_rank" -> mean_reciprocal_rank(predictions, ground_truth)
      [] fn = "ndcg_at_k" -> ndcg_at_k(predictions, ground_truth, k)
      [] OTHER -> per_query_metrics(predictions, ground_truth, k)

\* Two metric values are the same number.
SameValue(x, y) ==
    /\ x.d > 0
    /\ y.d > 0
    /\ IF x.d = y.d THEN x.n = y.n ELSE x.n * y.d = y.n * x.d

RemoveAt(s, q) == SubSeq(s, 1, q - 1) \o SubSeq(s, q + 1, Len(s))

InsertAt(s, q, e) == SubSeq(s, 1, q - 1) \o <<e>> \o SubSeq(s, q, Len(s))

\* C13: the averaged metrics average over the queries with a non-empty
\* relevant set only: removing such a query, or adding one with any
\* prediction list at any place, leaves the value unchanged, and the value is
\* 0.0 when every query has an empty relevant set.
C13_EmptyRelevantSetsExcluded ==
    (/\ result.status = "ok"
     /\ args.fn \in AveragedMetrics) =>
        LET p == args.predictions
            t == args.ground_truth
        IN  /\ \A q \in DOMAIN t :
                  Range(t[q]) = {} =>
                      LET r == Metric(args.fn, RemoveAt(p, q), RemoveAt(t, q), args.k)
                      IN  r.status = "ok" /\ SameValue(r.value, result.value)
            /\ \A q \in 1..(Len(t) + 1) : \A pred \in PredLists :
                  LET r == Metric(args.fn, InsertAt(p, q, pred),
                                  InsertAt(t, q, <<>>), args.k)
                  IN  r.status = "ok" /\ SameValue(r.value, result.value)
            /\ (\A q \in DOMAIN t : Range(t[q]) = {}) => result.value = Frac(0, 1)

\* Two queries, the first with an empty relevant set and a non-empty
\* prediction list, the second scored 1: the value is 1, not 1/2.
C13_Witness ==
    /\ result.status = "ok"
    /\ args.fn \in AveragedMetrics
    /\ Len(args.ground_truth) = 2
    /\ args.ground_truth[1] = <<>>
    /\ args.predictions[1] # <<>>
    /\ args.ground_truth[2] # <<>>
    /\ result.value.n = result.value.d

\* The queries with a non-empty relevant set.
RelevantQueries(ground_truth) ==
    {q \in DOMAIN ground_truth : Range(ground_truth[q]) # {}}

\* |set(pred[:k]) & relevant|
TopKHits(pred, true, k) ==
    Cardinality({pred[i] : i \in {j \in DOMAIN pred : j <= k}} \cap Range(true))

\* What C14 says one query scores: over |relevant| for recall, over k for
\* precision.
QueryScore(fn, pred, true, k) ==
    IF fn = "recall_at_k"
    THEN Frac(TopKHits(pred, true, k), Cardinality(Range(true)))
    ELSE Frac(TopKHits(pred, true, k), k)

RECURSIVE SumOfScores(_, _, _, _, _)
SumOfScores(fn, predictions, ground_truth, k, Q) ==
    IF Q = {} THEN Frac(0, 1)
    ELSE LET q == CHOOSE x \in Q : TRUE
             rest == SumOfScores(fn, predictions, ground_truth, k, Q \ {q})
             s == QueryScore(fn, predictions[q], ground_truth[q], k)
         IN  Frac(rest.n * s.d + s.n * rest.d, rest.d * s.d)

C14_TestWitness ==
    /\ result.status = "ok"
    /\ args.fn = "recall_at_k"
    /\ args.k = TestK
    /\ Len(args.predictions) = 2
    /\ SameValue(result.value, Frac(7, 12))

\* No item outside the relevant set precedes a relevant one.
RelevantFirst(pred, true) ==
    \A i, j \in DOMAIN pred :
        (i < j /\ pred[j] \in Range(true)) => pred[i] \in Range(true)

\* The reorderings of a list.
Reorderings(s) ==
    {[i \in DOMAIN s |-> s[o[i]]] : o \in IterationOrders(DOMAIN s)}

\* C15: for fixed relevant sets and k, a query whose prediction list places
\* the relevant items first gets an ndcg_at_k value greater than or equal to
\* that of every permutation of that prediction list.
C15_RelevantFirstIsBest ==
    (/\ result.status = "ok"
     /\ args.fn = "ndcg_at_k") =>
        \A q \in DOMAIN args.predictions :
            RelevantFirst(args.predictions[q], args.ground_truth[q]) =>
                \A perm \in Reorderings(args.predictions[q]) :
                    LET r == ndcg_at_k([args.predictions EXCEPT ![q] = perm],
                                       args.ground_truth, args.k)
                    IN  r.status = "ok" /\ FracLeq(r.value, result.value)

\* The test's perfect ranking <<1, 3, 5, 2, 4>> at k = 5 scores 1, strictly
\* above its reordering <<1, 2, 3, 4, 5>>.
C15_Witness ==
    /\ result.status = "ok"
    /\ args.fn = "ndcg_at_k"
    /\ args.k = TestK
    /\ args.predictions = <<(<<1, 3, 5, 2, 4>>)>>
    /\ args.ground_truth = <<(<<1, 3, 5>>)>>
    /\ result.value.n = result.value.d
    /\ LET r == ndcg_at_k(<<(<<1, 2, 3, 4, 5>>)>>, args.ground_truth, args.k)
       IN  r.value.n < result.value.n /\ r.value.d = result.value.d

\* C16: ndcg_at_k returns a value in [0, 1] for every input, prediction
\* lists that repeat a relevant identifier within the top k included.
C16_NdcgInUnitInterval ==
    (/\ result.status = "ok"
     /\ args.fn = "ndcg_at_k") =>
        /\ 0 <= result.value.n
        /\ result.value.n <= result.value.d

\* No prediction list has the same relevant identifier twice in its top k.
NoRelevantRepeat ==
    \A q \in zipped(args.predictions, args.ground_truth) :
        \A i, j \in DOMAIN top_k(args.predictions[q], args.k) :
            (/\ args.predictions[q][i] = args.predictions[q][j]
             /\ args.predictions[q][i] \in Range(args.ground_truth[q])) => i = j

\* Without such a repeat the value does lie in [0, 1].
NdcgInUnitIntervalWithoutRepeats ==
    (/\ result.status = "ok"
     /\ args.fn = "ndcg_at_k"
     /\ NoRelevantRepeat) =>
        /\ 0 <= result.value.n
        /\ result.value.n <= result.value.d

-----------------------------------------------------------------------------
(* LabelTagger (src/core/tagging.py).  A text is modelled by its cosine    *)
(* similarity to every label, in hundredths; the embedding of a label by   *)
(* the label it encodes.                                                   *)

\* Bound: top_n in 0..MaxTopN.
MaxTopN == 2

Groups == {"cuisine", "diet"}

\* A group name no call ever gives labels to.
UnknownGroup == "course"

Labels == {"Lebanese", "Italian", "Indian"}

LabelLists ==
    {<<>>, <<"Lebanese">>, <<"Italian", "Lebanese">>,
     <<"Lebanese", "Italian", "Indian">>}

\* The contents a labels file may have: labels for some of the groups.
LabelFiles == UNION {[S -> LabelLists] : S \in SUBSET Groups}

\* The default threshold of assign_labels, 0.35.
DefaultThreshold == 35

TagSims == {DefaultThreshold, 70}

Thresholds == {DefaultThreshold, 50, 80}

\* The texts: any similarity to the first two labels, the third label's at the
\* default threshold.
Texts == {t \in [Labels -> TagSims] : t["Indian"] = DefaultThreshold}

\* encode_texts(labels, normalize=True): one embedding per label.
encode_texts(labels) == [i \in DOMAIN labels |-> [of |-> labels[i]]]

\* batch_cosine_similarity(text_embedding, label_embs)[0]
similarities(text, label_embs) ==
    [i \in DOMAIN label_embs |-> text[label_embs[i].of]]

\* d[k] = v on a dict kept as a function.
DictPut(d, k, v) == [x \in DOMAIN d \cup {k} |-> IF x = k THEN v ELSE d[x]]

\* The entry stored in label_embeddings for a list of labels.
centroids(labels) == [labels |-> labels, embeddings |-> encode_texts(labels)]

\* The loop of load_labels: an entry for every group of the file.
load_embeddings(embs, file) ==
    [g \in DOMAIN embs \cup DOMAIN file |->
        IF g \in DOMAIN file THEN centroids(file[g]) ELSE embs[g]]

\* A filter that drops a score equal to the threshold.
passes_strictly(score, threshold) == score > threshold

\* A filter that keeps the scores up to the threshold.
passes_up_to(score, threshold) == score <= threshold

\* if score >= threshold
passes(score, threshold) == score >= threshold

\* results.sort(key=lambda x: x[1], reverse=True): stable.
RECURSIVE sort_by_score(_)
sort_by_score(items) ==
    IF items = <<>> THEN <<>>
    ELSE LET rest == sort_by_score(SubSeq(items, 1, Len(items) - 1))
             e == items[Len(items)]
             k == Cardinality({i \in DOMAIN rest : rest[i][2] >= e[2]})
         IN  SubSeq(rest, 1, k) \o <<e>> \o SubSeq(rest, k + 1, Len(rest))

\* results[:top_n] for top_n >= 0
first_n(results, top_n) ==
    SubSeq(results, 1, IF top_n < Len(results) THEN top_n ELSE Len(results))

\* group_name in self.label_embeddings
has_centroids(groups, embs, group_name) == group_name \in DOMAIN embs

assign_labels(groups, embs, text, group_name, top_n, threshold) ==
    IF ~has_centroids(groups, embs, group_name) THEN <<>>
    ELSE LET label_data == embs[group_name]
             labels == label_data.labels
             sims == similarities(text, label_data.embeddings)
             scored == [i \in DOMAIN labels |-> <<labels[i], sims[i]>>]
             results == SelectSeq(scored, LAMBDA r : passes(r[2], threshold))
         IN  first_n(sort_by_score(results), top_n)

\* An assign_all_groups over the groups that have centroids.
groups_with_centroids(groups, embs) == DOMAIN embs

\* for group_name in self.label_groups
groups_to_assign(groups, embs) == DOMAIN groups

assign_all_groups(groups, embs, text, top_n, threshold) ==
    [g \in groups_to_assign(groups, embs) |->
        assign_labels(groups, embs, text, g, top_n, threshold)]

\* LabelTagger(labels_path): empty, or loaded from the file when it exists.
TaggerInit ==
    /\ parent = EmptyUF.parent
    /\ rank = EmptyUF.rank
    /\ keys = EmptyUF.keys
    /\ comps = {}
    /\ args = None
    /\ result = NotCalled
    /\ NewRecommender
    /\ \/ /\ label_groups = EmptyDict
          /\ label_embeddings = EmptyDict
          /\ ever_set = {}
       \/ \E file \in LabelFiles :
             /\ label_groups = file
             /\ label_embeddings = load_embeddings(EmptyDict, file)
             /\ ever_set = DOMAIN file

load_labels(file) ==
    /\ label_groups' = file
    /\ label_embeddings' = load_embeddings(label_embeddings, file)
    /\ ever_set' = ever_set \cup DOMAIN file
    /\ args' = None
    /\ result' = NotCalled
    /\ UNCHANGED <<parent, rank, keys, comps, recommender>>

set_labels(group_name, labels) ==
    /\ label_groups' = DictPut(label_groups, group_name, labels)
    /\ label_embeddings' = DictPut(label_embeddings, group_name, centroids(labels))
    /\ ever_set' = ever_set \cup {group_name}
    /\ args' = None
    /\ result' = NotCalled
    /\ UNCHANGED <<parent, rank, keys, comps, recommender>>

AssignLabels(text, group_name, top_n, threshold) ==
    /\ args' = [op |-> "assign_labels", text |-> text, group_name |-> group_name,
                top_n |-> top_n, threshold |-> threshold]
    /\ result' = Returned(assign_labels(label_groups, label_embeddings, text,
                                        group_name, top_n, threshold))
    /\ UNCHANGED <<parent, rank, keys, comps, tagger, recommender>>

AssignAllGroups(text, top_n, threshold) ==
    /\ args' = [op |-> "assign_all_groups", text |-> text, group_name |-> None,
                top_n |-> top_n, threshold |-> threshold]
    /\ result' = Returned(assign_all_groups(label_groups, label_embeddings, text,
                                            top_n, threshold))
    /\ UNCHANGED <<parent, rank, keys, comps, tagger, recommender>>

TaggerNext ==
    \/ \E file \in LabelFiles : load_labels(file)
    \/ \E g \in Groups, labels \in LabelLists : set_labels(g, labels)
    \/ \E text \in Texts, g \in Groups \cup {UnknownGroup}, top_n \in 0..MaxTopN,
          threshold \in Thresholds : AssignLabels(text, g, top_n, threshold)
    \/ \E text \in Texts, top_n \in 0..MaxTopN, threshold \in Thresholds :
          AssignAllGroups(text, top_n, threshold)

SpecTagger == TaggerInit /\ [][TaggerNext]_vars

\* assign_labels on the tagger's present state, which a call leaves as it
\* found it, with the call's text, group and top_n and another threshold.
SameCallAt(threshold) ==
    assign_labels(label_groups, label_embeddings, args.text, args.group_name,
                  args.top_n, threshold)

\* C17: for the same tagger state, text, group and top_n, a higher threshold
\* never returns more labels.
C17_ThresholdMonotone ==
    (/\ result.status = "ok"
     /\ args.op = "assign_labels") =>
        \A t \in Thresholds :
            /\ t >= args.threshold => Len(SameCallAt(t)) <= Len(result.value)
            /\ t <= args.threshold => Len(SameCallAt(t)) >= Len(result.value)

\* A call that returned two labels and returns one at a higher threshold
\* and none at a still higher one.
C17_Witness ==
    /\ result.status = "ok"
    /\ args.op = "assign_labels"
    /\ Len(result.value) = 2
    /\ \E t, u \in Thresholds :
          /\ args.threshold < t
          /\ t < u
          /\ Len(SameCallAt(t)) = 1
          /\ Len(SameCallAt(u)) = 0

\* The present labels of a group; none for a group without a label list.
GroupLabels(g) == IF g \in DOMAIN label_groups THEN label_groups[g] ELSE <<>>

\* The labels an assign_labels result names.
Returned_labels(results) == {results[i][1] : i \in DOMAIN results}

\* C18: assign_labels returns at most top_n (label, score) entries, each
\* with its label's similarity as score and that score >= threshold (a score
\* equal to the threshold is kept), in non-increasing score order; no label
\* of the group that passes the threshold and is not returned scores above a
\* returned one, and none is left out while fewer than top_n are returned.
C18_TopNAboveThreshold ==
    (/\ result.status = "ok"
     /\ args.op = "assign_labels") =>
        LET res == result.value
            labels == GroupLabels(args.group_name)
            passing == {i \in DOMAIN labels : args.text[labels[i]] >= args.threshold}
        IN  /\ Len(res) <= args.top_n
            /\ \A i \in DOMAIN res :
                  /\ res[i][2] = args.text[res[i][1]]
                  /\ res[i][2] >= args.threshold
            /\ \A i \in 1..(Len(res) - 1) : res[i][2] >= res[i + 1][2]
            /\ \A i \in passing :
                  labels[i] \notin Returned_labels(res) =>
                      /\ Len(res) = args.top_n
                      /\ \A j \in DOMAIN res : res[j][2] >= args.text[labels[i]]
            /\ args.group_name \in DOMAIN label_groups =>
                  /\ Returned_labels(res) \subseteq Range(labels)
                  /\ Len(res) = IF Cardinality(passing) < args.top_n
                                THEN Cardinality(passing) ELSE args.top_n

\* top_n = 2 of three passing labels: the second returned score equals the
\* threshold, and a label that also passes is left out.
C18_Witness ==
    /\ result.status = "ok"
    /\ args.op = "assign_labels"
    /\ args.top_n = 2
    /\ Len(result.value) = 2
    /\ result.value[1][2] > result.value[2][2]
    /\ result.value[2][2] = args.threshold
    /\ \E i \in DOMAIN GroupLabels(args.group_name) :
          /\ GroupLabels(args.group_name)[i] \notin Returned_labels(result.value)
          /\ args.text[GroupLabels(args.group_name)[i]] >= args.threshold

\* C19: assign_labels for a group that was never given labels returns the
\* empty list (and no error); assign_all_groups returns a mapping whose keys
\* are exactly the groups of the tagger's present label definitions, each
\* with the result assign_labels gives for it.
C19_UnknownGroupsAndAllGroups ==
    /\ result.status # "error"
    /\ result.status = "ok" =>
          /\ (args.op = "assign_labels" /\ args.group_name \notin ever_set) =>
                result.value = <<>>
          /\ args.op = "assign_all_groups" =>
                /\ DOMAIN result.value = DOMAIN label_groups
                /\ \A g \in DOMAIN label_groups :
                      result.value[g] =
                          assign_labels(label_groups, label_embeddings, args.text,
                                        g, args.top_n, args.threshold)

\* assign_labels for a group that was never given labels, on a tagger whose
\* other group answers the same text with a label.
C19_Witness ==
    /\ result.status = "ok"
    /\ args.op = "assign_labels"
    /\ args.group_name \in Groups \ ever_set
    /\ result.value = <<>>
    /\ \E g \in DOMAIN label_groups :
          assign_labels(label_groups, label_embeddings, args.text, g,
                        args.top_n, args.threshold) # <<>>

\* assign_all_groups on a tagger with one group set: one key, a label found.
C19_AllGroupsWitness ==
    /\ result.status = "ok"
    /\ args.op = "assign_all_groups"
    /\ Cardinality(DOMAIN result.value) = 1
    /\ Cardinality(Groups \ ever_set) = 1
    /\ \A g \in DOMAIN result.value : result.value[g] # <<>>

\* C20: after any sequence of set_labels and load_labels calls the groups
\* with stored centroids are the groups of the present label definitions,
\* each stored with its present label list and that list's embeddings, and
\* assign_labels answers nothing for a group without a present label list.
C20_NoStaleCentroids ==
    /\ DOMAIN label_embeddings = DOMAIN label_groups
    /\ \A g \in DOMAIN label_groups \cap DOMAIN label_embeddings :
          label_embeddings[g] = centroids(label_groups[g])
    /\ (/\ result.status = "ok"
        /\ args.op = "assign_labels"
        /\ args.group_name \notin DOMAIN label_groups) => result.value = <<>>

\* For the groups that have a present label list the stored centroids are
\* those of that list.
StoredMatchesCurrent ==
    \A g \in DOMAIN label_groups :
        /\ g \in DOMAIN label_embeddings
        /\ label_embeddings[g] = centroids(label_groups[g])

\* ---------------------------------------------------------------------
\* per_query_metrics: the hit flag and the first-hit rank

\* C29: in every entry per_query_metrics returns, hit is 1 exactly when
\* first_hit_rank is not None (kept as 0), and then first_hit_rank is at
\* most k.
C29_HitAgreesWithFirstHitRank ==
    (result.status = "ok" /\ args.fn = "per_query_metrics") =>
        \A q \in DOMAIN result.value :
            LET e == result.value[q]
            IN  /\ (e.hit = 1) <=> (e.first_hit_rank # 0)
                /\ (e.hit = 1) => (e.first_hit_rank <= args.k)

\* What the code does keep: a hit within the top k always has a first-hit
\* rank, and that rank is at most k.
HitHasRankWithinK ==
    (result.status = "ok" /\ args.fn = "per_query_metrics") =>
        \A q \in DOMAIN result.value :
            LET e == result.value[q]
            IN  (e.hit = 1) => (e.first_hit_rank \in 1..args.k)

\* ---------------------------------------------------------------------
\* normalize_text (src/core/normalize.py)
\*
\* A string is a sequence of characters; the alphabet has one character of
\* every kind the function tells apart.

MaxTextLen == 3

Whitespace == {" "}

\* AR_DIAC: the code points U+0617..U+061A and U+064B..U+0652.
AR_DIAC == {"U+064B"}

\* ALEF: U+0622, U+0623, U+0625.
ALEF == {"U+0623"}

Chars == Whitespace \cup AR_DIAC \cup ALEF \cup
         {"A", "a", "U+0627", "U+0649", "U+064A", "U+0663", "3"}

\* s.translate / s.replace / str.lower: one output character per character.
MapChars(s, f(_)) == [i \in DOMAIN s |-> f(s[i])]

\* re.sub('', s) over a character class: the characters outside it, in order.
RECURSIVE RemoveChars(_, _)
RemoveChars(s, class) ==
    IF s = <<>> THEN <<>>
    ELSE IF Head(s) \in class THEN RemoveChars(Tail(s), class)
    ELSE <<Head(s)>> \o RemoveChars(Tail(s), class)

\* str.strip(): without the leading and the trailing whitespace.
RECURSIVE lstrip(_)
lstrip(s) ==
    IF s # <<>> /\ Head(s) \in Whitespace THEN lstrip(Tail(s)) ELSE s

RECURSIVE rstrip(_)
rstrip(s) ==
    IF s # <<>> /\ s[Len(s)] \in Whitespace
    THEN rstrip(SubSeq(s, 1, Len(s) - 1)) ELSE s

strip(s) == rstrip(lstrip(s))

lower(c) == IF c = "A" THEN "a" ELSE c

\* AR_DIGITS: Arabic-Indic digits to Western digits.
AR_DIGITS(c) == IF c = "U+0663" THEN "3" ELSE c

alef_to_base(c) == IF c \in ALEF THEN "U+0627" ELSE c

maqsura_to_yaa(c) == IF c = "U+0649" THEN "U+064A" ELSE c

normalize_text(s, remove_diacritics) ==
    IF s = <<>> THEN <<>>
    ELSE LET s1 == MapChars(strip(s), lower)
             s2 == MapChars(s1, AR_DIGITS)
             s3 == IF remove_diacritics THEN RemoveChars(s2, AR_DIAC) ELSE s2
             s4 == MapChars(s3, alef_to_base)
         IN  MapChars(s4, maqsura_to_yaa)

NormalizeInit ==
    /\ parent = EmptyUF.parent
    /\ rank = EmptyUF.rank
    /\ keys = EmptyUF.keys
    /\ comps = {}
    /\ label_groups = EmptyDict
    /\ label_embeddings = EmptyDict
    /\ ever_set = {}
    /\ NewRecommender
    /\ \E s \in SeqsUpTo(Chars, MaxTextLen), d \in BOOLEAN :
          args = [fn |-> "normalize_text", s |-> s, remove_diacritics |-> d]
    /\ result = NotCalled

NormalizeCall ==
    /\ result = NotCalled
    /\ result' = Returned(normalize_text(args.s, args.remove_diacritics))
    /\ UNCHANGED <<parent, rank, keys, comps, args, tagger, recommender>>

NormalizeNext == NormalizeCall

SpecNormalize == NormalizeInit /\ [][NormalizeNext]_vars

\* C26: normalize_text is idempotent for every input and either value of
\* remove_diacritics: normalizing the returned string again returns it.
C26_NormalizeIdempotent ==
    (result.status = "ok" /\ args.fn = "normalize_text") =>
        normalize_text(result.value, args.remove_diacritics) = result.value

\* With remove_diacritics=False the second pass changes nothing.
IdempotentKeepingDiacritics ==
    (result.status = "ok" /\ args.fn = "normalize_text"
        /\ ~args.remove_diacritics) =>
        normalize_text(result.value, args.remove_diacritics) = result.value

\* ---------------------------------------------------------------------
\* The search endpoint (src/api/routers/search.py)
\*
\* A provider either raises or answers with its ranking; the request
\* carries mode, k (1..100 by its schema) and alpha (0..1 by its schema).

MaxSearchK == 2

\* k of the provider calls of the hybrid mode and of the sparse search.
ProviderK == 100

Failure == "raises"

Modes == {"sparse", "dense", "hybrid"}

\* bm25.search(query, k=100): raises (BM25 not fitted) or a ranking.
SparseOutcomes == {Failure, <<>>, <<(<<1, 3>>), <<2, 1>>>>}

\* vector_store.search(query_vector, k, ef_search): raises or a ranking.
DenseOutcomes == {Failure, <<>>, <<(<<2, 3>>), <<3, 0>>>>}

\* The item ids that have a row in the items table.
ItemTables == {{1, 2, 3}, {1, 2}}

\* What a provider that was asked for k results hands over.
provider_search(outcome, k) == first_n(outcome, k)

\* Lines 80-111: the results that have a row, in the order of final_results.
RECURSIVE with_rows(_, _)
with_rows(final_results, rows) ==
    IF final_results = <<>> THEN <<>>
    ELSE IF Head(final_results)[1] \in rows
         THEN <<Head(final_results)>> \o with_rows(Tail(final_results), rows)
         ELSE with_rows(Tail(final_results), rows)

\* Lines 41-50: the sparse phase. A failure is logged and, outside the
\* sparse mode, swallowed: sparse_results stays [].
sparse_phase(request) ==
    IF request.mode \in {"sparse", "hybrid"}
    THEN IF request.sparse = Failure
         THEN IF request.mode = "sparse"
              THEN Raised("HTTPException(500)")
              ELSE Returned(<<>>)
         ELSE Returned(provider_search(request.sparse, ProviderK))
    ELSE Returned(<<>>)

\* Lines 53-67: the dense phase, which has no try: an exception of
\* encode_texts or of vector_store.search leaves the handler.
dense_phase(request) ==
    IF request.mode \in {"dense", "hybrid"}
    THEN IF ~request.encodes THEN Raised("Exception")
         ELSE IF request.dense = Failure THEN Raised("Exception")
         ELSE Returned(provider_search(request.dense,
                  IF request.mode = "dense" THEN request.k ELSE ProviderK))
    ELSE Returned(<<>>)

\* Lines 70-78.
final_results(request, sparse_results, dense_results, order) ==
    IF request.mode = "hybrid"
    THEN first_n(combine_scores(sparse_results, dense_results, request.alpha, order),
                 request.k)
    ELSE IF request.mode = "sparse" THEN first_n(sparse_results, request.k)
    ELSE dense_results

\* The handler, for the order in which combine_scores iterates its id set.
search(request, order) ==
    LET sp == sparse_phase(request)
    IN  IF sp.status = "error" THEN sp
        ELSE LET de == dense_phase(request)
             IN  IF de.status = "error" THEN de
                 ELSE Returned(with_rows(
                          final_results(request, sp.value, de.value, order),
                          request.rows))

\* The ids combine_scores iterates over in this request (none outside the
\* hybrid mode or when a phase raised).
search_ids(request) ==
    LET sp == sparse_phase(request)
        de == dense_phase(request)
    IN  IF request.mode = "hybrid" /\ sp.status = "ok" /\ de.status = "ok"
        THEN all_ids(dict_of(sp.value), dict_of(de.value))
        ELSE {}

SearchInit ==
    /\ parent = EmptyUF.parent
    /\ rank = EmptyUF.rank
    /\ keys = EmptyUF.keys
    /\ comps = {}
    /\ label_groups = EmptyDict
    /\ label_embeddings = EmptyDict
    /\ ever_set = {}
    /\ NewRecommender
    /\ \E mode \in Modes, sp \in SparseOutcomes, de \in DenseOutcomes,
          enc \in BOOLEAN, k \in 1..MaxSearchK, a \in 0..AlphaDen,
          rows \in ItemTables :
          args = [fn |-> "search", mode |-> mode, sparse |-> sp, dense |-> de,
                  encodes |-> enc, k |-> k, alpha |-> a, rows |-> rows]
    /\ result = NotCalled

SearchCall ==
    /\ result = NotCalled
    /\ \E order \in IterationOrders(search_ids(args)) :
          result' = search(args, order)
    /\ UNCHANGED <<parent, rank, keys, comps, args, tagger, recommender>>

SearchNext == SearchCall

SpecSearch == SearchInit /\ [][SearchNext]_vars

SparseFails(request) ==
    request.mode \in {"sparse", "hybrid"} /\ request.sparse = Failure

DenseFails(request) ==
    request.mode \in {"dense", "hybrid"}
        /\ (~request.encodes \/ request.dense = Failure)

\* C28: in the hybrid mode the failure of one provider does not fail the
\* request: when only the sparse search raises the answer holds dense
\* results only, when only the dense search or the encoding raises it holds
\* sparse results only; the request ends with an error only when the
\* provider that raised is the only one its mode uses (or both raised).
C28_HybridSurvivesOneProviderFailure ==
    (result.status # "none" /\ args.fn = "search") =>
        /\ (args.mode = "hybrid" /\ SparseFails(args) /\ ~DenseFails(args)) =>
              /\ result.status = "ok"
              /\ ListIds(result.value) \subseteq ListIds(args.dense)
        /\ (args.mode = "hybrid" /\ DenseFails(args) /\ ~SparseFails(args)) =>
              /\ result.status = "ok"
              /\ ListIds(result.value) \subseteq ListIds(args.sparse)
        /\ result.status = "error" =>
              \/ args.mode = "sparse" /\ SparseFails(args)
              \/ args.mode = "dense" /\ DenseFails(args)
              \/ args.mode = "hybrid" /\ SparseFails(args) /\ DenseFails(args)

\* The half the handler does implement: a sparse failure in the hybrid mode
\* is survived with the dense results, and fails the sparse mode.
SparseFailureIsSurvived ==
    (result.status # "none" /\ args.fn = "search" /\ SparseFails(args)
        /\ ~DenseFails(args)) =>
        IF args.mode = "hybrid"
        THEN /\ result.status = "ok"
             /\ ListIds(result.value) \subseteq ListIds(args.dense) \cap args.rows
             /\ Len(result.value) <= args.k
        ELSE result.status = "error"

\* ---------------------------------------------------------------------
\* ContentBasedRecommender (src/core/recommend.py)
\*
\* An embedding is a vector of two integers; the catalog's embeddings are
\* unit vectors.  A profile, the mean of some embeddings scaled to unit
\* length, is kept as the shortest integer vector of its direction (the
\* zero vector for a zero mean).  A score is kept exactly, as
\* dot / sqrt(norm2) + boost with boost a fraction.

MaxRecK == 2

\* The updates of one behaviour record at most this many known items.
MaxInteractions == 3

Users == {"u1", "u2"}

UnknownItem == 9

\* The rows get_recommender loads: the ids in ascending order.
Catalog == <<1, 2, 3>>

CatalogEmbeddings == <<(<<1, 0>>), <<0, 1>>, <<-1, 0>>>>

InteractionLists == {<<UnknownItem>>, <<2>>, <<1, UnknownItem, 2>>, <<3, 3>>}

ExcludeLists == {<<>>, <<2, UnknownItem>>}

\* popularity_boost, in tenths: 0 and the default 0.1.
BoostDen == 10

BoostNums == {0, 1}

Embeddings(rows) == [is_none |-> FALSE, rows |-> rows]

\* The recommender's fields in the present state.
this == [item_ids |-> catalog_ids, item_embeddings |-> item_embeddings,
         user_profiles |-> user_profiles, item_popularity |-> item_popularity]

Abs(x) == IF x < 0 THEN -x ELSE x

RECURSIVE GCD(_, _)
GCD(a, b) == IF b = 0 THEN a ELSE GCD(b, a % b)

Dot(u, v) == u[1] * v[1] + u[2] * v[2]

RECURSIVE VecSum(_)
VecSum(vecs) ==
    IF vecs = <<>> THEN <<0, 0>>
    ELSE LET r == VecSum(Tail(vecs))
         IN  <<Head(vecs)[1] + r[1], Head(vecs)[2] + r[2]>>

\* np.mean(vecs, axis=0) divided by its norm: the direction of the sum.
normalized_mean(vecs) ==
    LET s == VecSum(vecs)
        g == GCD(Abs(s[1]), Abs(s[2]))
    IN  IF g = 0 THEN <<0, 0>> ELSE <<s[1] \div g, s[2] \div g>>

\* self.item_ids.index(item_id)
index(ids, item_id) == SetMin({i \in DOMAIN ids : ids[i] = item_id})

\* The ids of a list that are in the catalog, in the list's order.
known_items(ids, interacted_item_ids) ==
    LET in_catalog(x) == x \in Range(ids)
    IN  SelectSeq(interacted_item_ids, in_catalog)

\* self.item_popularity.get(item_id, 0)
popularity_get(popularity, item_id) ==
    IF \E i \in DOMAIN popularity : popularity[i][1] = item_id
    THEN popularity[CHOOSE i \in DOMAIN popularity : popularity[i][1] = item_id][2]
    ELSE 0

\* self.item_popularity[item_id] = count
store_count(popularity, item_id, count) ==
    IF \E i \in DOMAIN popularity : popularity[i][1] = item_id
    THEN [i \in DOMAIN popularity |->
             IF popularity[i][1] = item_id THEN <<item_id, count>>
             ELSE popularity[i]]
    ELSE Append(popularity, <<item_id, count>>)

\* self.item_popularity[item_id] += 1 on the defaultdict(int)
increment(popularity, item_id) ==
    store_count(popularity, item_id, popularity_get(popularity, item_id) + 1)

\* A loop that counts an item once however often the list names it.
RECURSIVE count_once(_, _)
count_once(popularity, known) ==
    IF known = <<>> THEN popularity
    ELSE LET other(x) == x # Head(known)
         IN  count_once(increment(popularity, Head(known)),
                        SelectSeq(Tail(known), other))

\* The popularity dict after the loop of update_user_profile.
RECURSIVE count_interactions(_, _)
count_interactions(popularity, known) ==
    IF known = <<>> THEN popularity
    ELSE count_interactions(increment(popularity, Head(known)), Tail(known))

\* A profile that blends the stored profile with the new embeddings.
user_profile_blended(profiles, user_id, interacted_embeddings) ==
    IF user_id \in DOMAIN profiles
    THEN normalized_mean(<<profiles[user_id]>> \o interacted_embeddings)
    ELSE normalized_mean(interacted_embeddings)

\* Lines 53-56: the mean of this call's embeddings, normalized.
user_profile(profiles, user_id, interacted_embeddings) ==
    normalized_mean(interacted_embeddings)

\* update_user_profile: the profile map and the popularity dict it leaves.
update_user_profile(rec, user_id, interacted_item_ids) ==
    IF rec.item_embeddings.is_none
    THEN [user_profiles |-> rec.user_profiles,
          item_popularity |-> rec.item_popularity]
    ELSE LET known == known_items(rec.item_ids, interacted_item_ids)
             interacted_embeddings ==
                 [i \in DOMAIN known |->
                     rec.item_embeddings.rows[index(rec.item_ids, known[i])]]
             popularity == count_interactions(rec.item_popularity, known)
         IN  IF interacted_embeddings = <<>>
             THEN [user_profiles |-> rec.user_profiles,
                   item_popularity |-> popularity]
             ELSE [user_profiles |->
                       DictPut(rec.user_profiles, user_id,
                               user_profile(rec.user_profiles, user_id,
                                            interacted_embeddings)),
                   item_popularity |-> popularity]

\* dot / sqrt(norm2) + boost
Score(dot, norm2, boost) == [dot |-> dot, norm2 |-> norm2, boost |-> boost]

\* float(count)
CountScore(count) == Score(count, 1, Frac(0, 1))

\* x < y for two scores of the same norm2.
ScoreLess(x, y) ==
    LET a == (x.dot - y.dot) * x.boost.d * y.boost.d
        b == y.boost.n * x.boost.d - x.boost.n * y.boost.d
    IN  IF a < 0 THEN b >= 0 \/ a * a > b * b * x.norm2
        ELSE b > 0 /\ a * a < b * b * x.norm2

\* One entry of batch_cosine_similarity: 0 for a zero vector.
cosine(q, e) ==
    IF Dot(q, q) * Dot(e, e) = 0 THEN Score(0, 1, Frac(0, 1))
    ELSE Score(Dot(q, e), Dot(q, q) * Dot(e, e), Frac(0, 1))

\* results.sort(key=lambda x: x[1]): ascending instead of descending.
RECURSIVE sort_ascending(_)
sort_ascending(results) ==
    IF results = <<>> THEN <<>>
    ELSE LET rest == sort_ascending(SubSeq(results, 1, Len(results) - 1))
             e == results[Len(results)]
             n == Cardinality({i \in DOMAIN rest : ~ScoreLess(e[2], rest[i][2])})
         IN  SubSeq(rest, 1, n) \o <<e>> \o SubSeq(rest, n + 1, Len(rest))

\* results.sort(key=lambda x: x[1], reverse=True): stable, descending.
RECURSIVE sort_descending(_)
sort_descending(results) ==
    IF results = <<>> THEN <<>>
    ELSE LET rest == sort_descending(SubSeq(results, 1, Len(results) - 1))
             e == results[Len(results)]
             n == Cardinality({i \in DOMAIN rest : ~ScoreLess(rest[i][2], e[2])})
         IN  SubSeq(rest, 1, n) \o <<e>> \o SubSeq(rest, n + 1, Len(rest))

\* The entries of a list whose id is not in a set, in order.
not_excluded(results, exclude_set) ==
    LET kept(e) == e[1] \notin exclude_set
    IN  SelectSeq(results, kept)

\* Lines 164-169: append the non-excluded popular items; the length is
\* tested after an append only.
RECURSIVE popular_loop(_, _, _, _)
popular_loop(popular, exclude_set, k, results) ==
    IF popular = <<>> THEN results
    ELSE IF Head(popular)[1] \notin exclude_set
         THEN LET appended == Append(results, Head(popular))
              IN  IF Len(appended) >= k THEN appended
                  ELSE popular_loop(Tail(popular), exclude_set, k, appended)
         ELSE popular_loop(Tail(popular), exclude_set, k, results)

\* Lines 173-177: append the other non-excluded catalog items with 0.0.
RECURSIVE padding_loop(_, _, _, _)
padding_loop(ids, exclude_set, k, results) ==
    IF ids = <<>> THEN results
    ELSE IF Head(ids) \notin exclude_set /\ Head(ids) \notin ListIds(results)
         THEN LET appended == Append(results, <<Head(ids), CountScore(0)>>)
              IN  IF Len(appended) >= k THEN appended
                  ELSE padding_loop(Tail(ids), exclude_set, k, appended)
         ELSE padding_loop(Tail(ids), exclude_set, k, results)

_recommend_popular(rec, k, exclude_items) ==
    LET exclude_set == Range(exclude_items)
        popular == sort_descending(
                       [i \in DOMAIN rec.item_popularity |->
                           <<rec.item_popularity[i][1],
                             CountScore(rec.item_popularity[i][2])>>])
        results == popular_loop(popular, exclude_set, k, <<>>)
    IN  IF Len(results) < k /\ rec.item_ids # <<>>
        THEN padding_loop(rec.item_ids, exclude_set, k, results)
        ELSE results

\* max(self.item_popularity.values()) if self.item_popularity else 1
max_pop(popularity) ==
    IF popularity # <<>> THEN SetMax({popularity[i][2] : i \in DOMAIN popularity})
    ELSE 1

\* Lines 92-96: the similarity with the popularity boost added.
boosted(rec, similarity, item_id, popularity_boost) ==
    IF popularity_boost > 0
    THEN Score(similarity.dot, similarity.norm2,
               Frac(popularity_boost * popularity_get(rec.item_popularity, item_id),
                    BoostDen * max_pop(rec.item_popularity)))
    ELSE similarity

recommend_for_user(rec, user_id, k, exclude_items, popularity_boost) ==
    IF user_id \notin DOMAIN rec.user_profiles \/ rec.item_embeddings.is_none
    THEN _recommend_popular(rec, k, exclude_items)
    ELSE LET profile == rec.user_profiles[user_id]
             scored == [i \in DOMAIN rec.item_ids |->
                           <<rec.item_ids[i],
                             boosted(rec, cosine(profile, rec.item_embeddings.rows[i]),
                                     rec.item_ids[i], popularity_boost)>>]
             results == not_excluded(scored, Range(exclude_items))
         IN  first_n(sort_descending(results), k)

recommend_similar_items(rec, item_id, k, exclude_self) ==
    IF rec.item_embeddings.is_none \/ item_id \notin Range(rec.item_ids)
    THEN <<>>
    ELSE LET item_embedding == rec.item_embeddings.rows[index(rec.item_ids, item_id)]
             scored == [i \in DOMAIN rec.item_ids |->
                           <<rec.item_ids[i],
                             cosine(item_embedding, rec.item_embeddings.rows[i])>>]
             results == IF exclude_self THEN not_excluded(scored, {item_id})
                        ELSE scored
         IN  first_n(sort_descending(results), k)

\* The dict after self.item_popularity[item_id] for the ids of a list: the
\* defaultdict(int) inserts a missing key with 0.
after_getitem(popularity, ids) ==
    LET absent(x) == \A i \in DOMAIN popularity : popularity[i][1] # x
        new == SelectSeq(ids, absent)
    IN  popularity \o [i \in DOMAIN new |-> <<new[i], 0>>]

\* The dict after self.item_popularity.get(item_id, 0) for the ids of a
\* list: get inserts nothing.
after_get(popularity, ids) == popularity

\* The state a read leaves: recommend_for_user looks the popularity of every
\* catalog item up when it adds the boost (lines 92-96); nothing else is
\* touched by a read.
popularity_after_read(rec, fn, user_id, popularity_boost) ==
    IF /\ fn = "recommend_for_user"
       /\ user_id \in DOMAIN rec.user_profiles
       /\ ~rec.item_embeddings.is_none
       /\ popularity_boost > 0
    THEN after_get(rec.item_popularity, rec.item_ids)
    ELSE rec.item_popularity

\* The known items the updates have recorded so far.
recorded == LET total[i \in 0..Len(item_popularity)] ==
                    IF i = 0 THEN 0 ELSE total[i - 1] + item_popularity[i][2]
            IN  total[Len(item_popularity)]

RecInit ==
    /\ parent = EmptyUF.parent
    /\ rank = EmptyUF.rank
    /\ keys = EmptyUF.keys
    /\ comps = {}
    /\ label_groups = EmptyDict
    /\ label_embeddings = EmptyDict
    /\ ever_set = {}
    /\ NewRecommender
    /\ args = None
    /\ result = NotCalled

others == <<parent, rank, keys, comps, tagger, threads>>

\* get_recommender: the catalog is set once, right after construction.
SetItems ==
    /\ item_embeddings.is_none
    /\ catalog_ids' = Catalog
    /\ item_embeddings' = Embeddings(CatalogEmbeddings)
    /\ args' = [fn |-> "set_items"]
    /\ result' = Returned(None)
    /\ UNCHANGED <<user_profiles, item_popularity, interactions, others>>

UpdateUserProfile(user_id, interacted_item_ids) ==
    LET known == known_items(catalog_ids, interacted_item_ids)
        after == update_user_profile(this, user_id, interacted_item_ids)
    IN  /\ recorded + Len(known) <= MaxInteractions
        /\ user_profiles' = after.user_profiles
        /\ item_popularity' = after.item_popularity
        /\ interactions' =
               IF item_embeddings.is_none \/ known = <<>> THEN interactions
               ELSE DictPut(interactions, user_id,
                            (IF user_id \in DOMAIN interactions
                             THEN interactions[user_id] ELSE <<>>) \o known)
        /\ args' = [fn |-> "update_user_profile", user_id |-> user_id,
                    interacted_item_ids |-> interacted_item_ids]
        /\ result' = Returned(None)
        /\ UNCHANGED <<catalog_ids, item_embeddings, others>>

RecommendForUser(user_id, k, exclude_items, popularity_boost) ==
    /\ args' = [fn |-> "recommend_for_user", user_id |-> user_id, k |-> k,
                exclude_items |-> exclude_items,
                popularity_boost |-> popularity_boost]
    /\ result' = Returned(recommend_for_user(this, user_id, k, exclude_items,
                                             popularity_boost))
    /\ item_popularity' = popularity_after_read(this, "recommend_for_user",
                                                user_id, popularity_boost)
    /\ UNCHANGED <<catalog_ids, item_embeddings, user_profiles, interactions, others>>

RecommendSimilarItems(item_id, k, exclude_self) ==
    /\ args' = [fn |-> "recommend_similar_items", item_id |-> item_id, k |-> k,
                exclude_self |-> exclude_self]
    /\ result' = Returned(recommend_similar_items(this, item_id, k, exclude_self))
    /\ item_popularity' = popularity_after_read(this, "recommend_similar_items",
                                                None, 0)
    /\ UNCHANGED <<catalog_ids, item_embeddings, user_profiles, interactions, others>>

RecommendPopular(k, exclude_items) ==
    /\ args' = [fn |-> "_recommend_popular", k |-> k,
                exclude_items |-> exclude_items]
    /\ result' = Returned(_recommend_popular(this, k, exclude_items))
    /\ item_popularity' = popularity_after_read(this, "_recommend_popular",
                                                None, 0)
    /\ UNCHANGED <<catalog_ids, item_embeddings, user_profiles, interactions, others>>

RecNext ==
    \/ SetItems
    \/ \E u \in Users, ids \in InteractionLists : UpdateUserProfile(u, ids)
    \/ \E u \in Users, k \in 0..MaxRecK, ex \in ExcludeLists, b \in BoostNums :
          RecommendForUser(u, k, ex, b)
    \/ \E i \in {1, 3, UnknownItem}, k \in 0..MaxRecK, ex \in BOOLEAN :
          RecommendSimilarItems(i, k, ex)
    \/ \E k \in 0..MaxRecK, ex \in ExcludeLists : RecommendPopular(k, ex)

SpecRecommender == RecInit /\ [][RecNext]_vars

Reads == {"recommend_for_user", "recommend_similar_items", "_recommend_popular"}

\* A read has returned; reads leave the recommender as it was, so the
\* present state is the state the call ran in.
ReadReturned == result.status = "ok" /\ args.fn \in Reads

\* The catalog items a read may list: all but the excluded ones.
Candidates ==
    IF args.fn = "recommend_similar_items"
    THEN Range(catalog_ids) \ (IF args.exclude_self THEN {args.item_id} ELSE {})
    ELSE Range(catalog_ids) \ Range(args.exclude_items)

\* recommend_similar_items for an item that is not in the catalog (or with
\* no catalog) has nothing to compare with and returns [].
UnknownReference ==
    args.fn = "recommend_similar_items"
        /\ (item_embeddings.is_none \/ args.item_id \notin Range(catalog_ids))

\* C21: for every k >= 0 and every recommender state, recommend_for_user (on
\* either branch), recommend_similar_items and _recommend_popular return at
\* most k results, and fewer than k only when the catalog after exclusions
\* has fewer than k items.
C21_AtMostKResults ==
    ReadReturned =>
        /\ Len(result.value) <= args.k
        /\ (Len(result.value) < args.k /\ ~UnknownReference) =>
               Cardinality(Candidates) < args.k

\* For k >= 1 the bound holds.
AtMostKResultsForPositiveK ==
    (ReadReturned /\ args.k >= 1) =>
        /\ Len(result.value) <= args.k
        /\ (Len(result.value) < args.k /\ ~UnknownReference) =>
               Cardinality(Candidates) < args.k

\* How often a list names an item.
TimesNamed(list, x) == Cardinality({i \in DOMAIN list : list[i] = x})

\* The ids a popularity dict or the catalog can name.
AllItems == Range(Catalog) \cup {UnknownItem}

\* C22: update_user_profile(user, ids) with no id of the catalog changes
\* neither the profile map nor any popularity counter; otherwise the unknown
\* ids are ignored and every occurrence of a known id raises that item's
\* counter by exactly one, so no counter ever decreases.
C22_UpdateCountsKnownItems ==
    [][args'.fn = "update_user_profile" =>
          LET known == known_items(catalog_ids, args'.interacted_item_ids)
          IN  /\ known = <<>> =>
                    /\ user_profiles' = user_profiles
                    /\ item_popularity' = item_popularity
              /\ \A x \in AllItems :
                    popularity_get(item_popularity', x) =
                        popularity_get(item_popularity, x) + TimesNamed(known, x)
              /\ ListIds(item_popularity') \subseteq Range(catalog_ids)]_vars

\* An update that names a known item twice and has raised its counter by two.
C22_Witness ==
    /\ result.status = "ok"
    /\ args.fn = "update_user_profile"
    /\ args.interacted_item_ids = <<3, 3>>
    /\ popularity_get(item_popularity, 3) = 2
    /\ popularity_get(item_popularity, 2) = 1

\* An update of unknown ids only, for a user who has a profile.
C22_NoOpWitness ==
    /\ result.status = "ok"
    /\ args.fn = "update_user_profile"
    /\ args.interacted_item_ids = <<UnknownItem>>
    /\ args.user_id \in DOMAIN user_profiles
    /\ item_popularity # <<>>

\* The catalog embeddings of a list of known items.
EmbeddingsOf(known) ==
    [i \in DOMAIN known |-> item_embeddings.rows[index(catalog_ids, known[i])]]

\* The last n elements of a list.
Suffix(list, n) == SubSeq(list, Len(list) - n + 1, Len(list))

\* C23 as stated: after any sequence of update calls the stored profile of a
\* user is the normalized mean of the embeddings of all known items the
\* user has interacted with.
C23_ProfileOfFullHistory ==
    \A u \in DOMAIN user_profiles :
        user_profiles[u] = normalized_mean(EmbeddingsOf(interactions[u]))

\* C23, amended: the profile an update call stores is the normalized mean of
\* the embeddings of the known items of that call's list alone, whatever
\* profile was stored before and in whatever order the list names the items;
\* so every stored profile is that of the latest interactions of its user.
C23_ProfileOfLatestCall ==
    /\ (result.status = "ok" /\ args.fn = "update_user_profile"
           /\ known_items(catalog_ids, args.interacted_item_ids) # <<>>) =>
          \A list \in Reorderings(args.interacted_item_ids) :
              user_profiles[args.user_id] =
                  normalized_mean(EmbeddingsOf(known_items(catalog_ids, list)))
    /\ \A u \in DOMAIN user_profiles :
          \E n \in 1..Len(interactions[u]) :
              user_profiles[u] =
                  normalized_mean(EmbeddingsOf(Suffix(interactions[u], n)))

\* A user whose earlier update named item 2 and whose latest named 1 and 2.
C23_Witness ==
    /\ result.status = "ok"
    /\ args.fn = "update_user_profile"
    /\ args.interacted_item_ids = <<1, UnknownItem, 2>>
    /\ args.user_id \in DOMAIN interactions
    /\ interactions[args.user_id] = <<2, 1, 2>>
    /\ user_profiles[args.user_id] = <<1, 1>>

\* The non-excluded items that have a recorded interaction.
PopularCandidates(exclude_items) ==
    ListIds(item_popularity) \ Range(exclude_items)

\* The non-excluded catalog items without one, in catalog order.
PaddingCandidates(exclude_items) ==
    LET pads(x) == x \notin Range(exclude_items) /\ x \notin ListIds(item_popularity)
    IN  SelectSeq(catalog_ids, pads)

\* A result of _recommend_popular(k, exclude) as the claim describes it: the
\* min(k, n) most popular of the n non-excluded popular items in
\* non-increasing count order with the count as score, then, only when
\* n < k, the first k - n padding candidates with score 0.
IsPopularRanking(r, k, exclude_items) ==
    LET popular == PopularCandidates(exclude_items)
        n == Cardinality(popular)
        head == IF k < n THEN k ELSE n
        padding == PaddingCandidates(exclude_items)
    IN  /\ Len(r) >= head
        /\ \A i \in 1..head :
              /\ r[i][1] \in popular
              /\ r[i][2] = CountScore(popularity_get(item_popularity, r[i][1]))
              /\ \A j \in 1..head : i < j => r[i][2].dot >= r[j][2].dot
              /\ \A x \in popular \ {r[j][1] : j \in 1..head} :
                    popularity_get(item_popularity, x) <= r[i][2].dot
        /\ Len(r) - head = (IF k - n < Len(padding) THEN Max(k - n, 0)
                            ELSE Len(padding))
        /\ \A i \in 1..(Len(r) - head) :
              r[head + i] = <<padding[i], CountScore(0)>>
        /\ IsInjective([i \in DOMAIN r |-> r[i][1]])
        /\ ListIds(r) \cap Range(exclude_items) = {}

\* C24: _recommend_popular(k, exclude) lists the non-excluded items that
\* have recorded interactions in non-increasing count order with the count
\* as score and, only when fewer than k such items exist, appends the
\* remaining non-excluded catalog items with score 0 in catalog order until
\* k results are reached or the catalog is exhausted; no identifier appears
\* twice and no excluded identifier appears.
C24_PopularThenPadding ==
    (ReadReturned /\ args.fn = "_recommend_popular") =>
        IsPopularRanking(result.value, args.k, args.exclude_items)

\* For k >= 1 the result is the described one.
PopularThenPaddingForPositiveK ==
    (ReadReturned /\ args.fn = "_recommend_popular" /\ args.k >= 1) =>
        IsPopularRanking(result.value, args.k, args.exclude_items)

\* Two scores of the same value.
ScoreEq(x, y) == ~ScoreLess(x, y) /\ ~ScoreLess(y, x)

\* similarity + popularity_boost * popularity / max popularity of an item
\* for the user of the call, the boost being 0 without recorded interaction.
AdjustedScore(item_id) ==
    LET sim == cosine(user_profiles[args.user_id],
                      item_embeddings.rows[index(catalog_ids, item_id)])
        count == popularity_get(item_popularity, item_id)
    IN  IF args.popularity_boost > 0 /\ count > 0
        THEN Score(sim.dot, sim.norm2,
                   Frac(args.popularity_boost * count,
                        BoostDen * max_pop(item_popularity)))
        ELSE sim

\* C25: recommend_for_user for a user without a stored profile returns
\* exactly what _recommend_popular(k, exclude_items) returns in the same
\* state; for a user with a profile it returns no item of exclude_items, each
\* item with its adjusted score, in non-increasing adjusted score.
C25_FallbackOrRankedByAdjustedScore ==
    (ReadReturned /\ args.fn = "recommend_for_user") =>
        IF args.user_id \notin DOMAIN user_profiles
        THEN result.value = _recommend_popular(this, args.k, args.exclude_items)
        ELSE /\ ListIds(result.value) \cap Range(args.exclude_items) = {}
             /\ ListIds(result.value) \subseteq Range(catalog_ids)
             /\ \A i \in DOMAIN result.value :
                   ScoreEq(result.value[i][2], AdjustedScore(result.value[i][1]))
             /\ \A i, j \in DOMAIN result.value :
                   i < j => ~ScoreLess(result.value[i][2], result.value[j][2])

\* A user with a profile, an exclusion list and a boost: two results, the
\* first with the strictly higher adjusted score.
C25_Witness ==
    /\ ReadReturned
    /\ args.fn = "recommend_for_user"
    /\ args.user_id \in DOMAIN user_profiles
    /\ args.popularity_boost > 0
    /\ args.exclude_items # <<>>
    /\ Len(result.value) = 2
    /\ ScoreLess(result.value[2][2], result.value[1][2])

\* A user without profile after some interactions of another user.
C25_FallbackWitness ==
    /\ ReadReturned
    /\ args.fn = "recommend_for_user"
    /\ args.user_id \notin DOMAIN user_profiles
    /\ item_popularity # <<>>
    /\ Len(result.value) = 2

\* C30: the read operations (recommend_for_user on either branch,
\* recommend_similar_items, _recommend_popular) leave the profile map, the
\* popularity dict (its keys and every count) and the catalog as they were,
\* for every argument; and every stored popularity count is >= 1 in every
\* reachable state.
C30_ReadsChangeNothing ==
    /\ [][args'.fn \in Reads =>
             UNCHANGED <<catalog_ids, item_embeddings, user_profiles,
                         item_popularity>>]_vars
    /\ [](\A i \in DOMAIN item_popularity : item_popularity[i][2] >= 1)

\* recommend_for_user with a boost has looked up the popularity of a catalog
\* item that has no entry.
C30_Witness ==
    /\ ReadReturned
    /\ args.fn = "recommend_for_user"
    /\ args.user_id \in DOMAIN user_profiles
    /\ args.popularity_boost > 0
    /\ item_popularity # <<>>
    /\ Range(catalog_ids) \ ListIds(item_popularity) # {}

\* recommend_similar_items for an unknown item, with interactions recorded.
C30_UnknownItemWitness ==
    /\ ReadReturned
    /\ args.fn = "recommend_similar_items"
    /\ args.item_id = UnknownItem
    /\ item_popularity # <<>>

\* ---------------------------------------------------------------------
\* Concurrent update_user_profile calls on the shared recommender
\*
\* The recommend endpoint is a plain "def": the server runs every request on
\* a thread of its pool, and all requests use the one module-level
\* recommender, which has no lock.  A call is a sequence of steps on the
\* shared fields; "self.item_popularity[item_id] += 1" is a read of the
\* counter followed by a write of the value read plus one, and another
\* thread may run between the two.

Threads == {"t1", "t2"}

\* The first position >= i of a list that holds a catalog item, or the
\* position after the list's end.
next_known(ids, i) ==
    SetMin({j \in i..Len(ids) : ids[j] \in Range(catalog_ids)} \cup {Len(ids) + 1})

\* Where a call continues when its loop is at position i.
loop_pc(ids, i) == IF i <= Len(ids) THEN "read" ELSE "store"

\* self.item_popularity[item_id] of the defaultdict(int): a missing key is
\* inserted with 0.
getitem(popularity, item_id) ==
    IF \E i \in DOMAIN popularity : popularity[i][1] = item_id THEN popularity
    ELSE Append(popularity, <<item_id, 0>>)

ConcurrentInit ==
    /\ parent = EmptyUF.parent
    /\ rank = EmptyUF.rank
    /\ keys = EmptyUF.keys
    /\ comps = {}
    /\ label_groups = EmptyDict
    /\ label_embeddings = EmptyDict
    /\ ever_set = {}
    /\ args = None
    /\ result = NotCalled
    /\ catalog_ids = Catalog
    /\ item_embeddings = Embeddings(CatalogEmbeddings)
    /\ user_profiles = EmptyDict
    /\ item_popularity = <<>>
    /\ interactions = EmptyDict
    /\ \E calls \in [Threads -> Users \X InteractionLists] :
          threads = [t \in Threads |->
                        [pc |-> "start", user_id |-> calls[t][1],
                         interacted_item_ids |-> calls[t][2],
                         i |-> 0, interacted_embeddings |-> <<>>, count |-> 0]]

unshared == <<parent, rank, keys, comps, tagger, args, result,
              catalog_ids, item_embeddings, interactions>>

\* Lines 38-42: the test of item_embeddings and the start of the loop.
Start(t) ==
    LET c == threads[t]
        i == next_known(c.interacted_item_ids, 1)
    IN  /\ c.pc = "start"
        /\ threads' = [threads EXCEPT ![t] =
               IF item_embeddings.is_none THEN [c EXCEPT !.pc = "done"]
               ELSE [c EXCEPT !.i = i, !.pc = loop_pc(c.interacted_item_ids, i)]]
        /\ UNCHANGED <<user_profiles, item_popularity, unshared>>

\* Lines 44-47, first half: the embedding is appended and the counter read.
ReadCounter(t) ==
    LET c == threads[t]
        item_id == c.interacted_item_ids[c.i]
    IN  /\ c.pc = "read"
        /\ item_popularity' = getitem(item_popularity, item_id)
        /\ threads' = [threads EXCEPT ![t] =
               [c EXCEPT !.interacted_embeddings =
                             Append(@, item_embeddings.rows[index(catalog_ids, item_id)]),
                         !.count = popularity_get(item_popularity, item_id),
                         !.pc = "write"]]
        /\ UNCHANGED <<user_profiles, unshared>>

\* Line 47, second half: the value read plus one is stored.
WriteCounter(t) ==
    LET c == threads[t]
        item_id == c.interacted_item_ids[c.i]
        i == next_known(c.interacted_item_ids, c.i + 1)
    IN  /\ c.pc = "write"
        /\ item_popularity' = store_count(item_popularity, item_id, c.count + 1)
        /\ threads' = [threads EXCEPT ![t] =
               [c EXCEPT !.i = i, !.pc = loop_pc(c.interacted_item_ids, i)]]
        /\ UNCHANGED <<user_profiles, unshared>>

\* Lines 49-58: nothing for an empty list of embeddings, else the profile
\* is computed and stored.
StoreProfile(t) ==
    LET c == threads[t]
    IN  /\ c.pc = "store"
        /\ user_profiles' =
               IF c.interacted_embeddings = <<>> THEN user_profiles
               ELSE DictPut(user_profiles, c.user_id,
                            user_profile(user_profiles, c.user_id,
                                         c.interacted_embeddings))
        /\ threads' = [threads EXCEPT ![t] = [c EXCEPT !.pc = "done"]]
        /\ UNCHANGED <<item_popularity, unshared>>

ConcurrentNext ==
    \E t \in Threads :
        \/ Start(t)
        \/ ReadCounter(t)
        \/ WriteCounter(t)
        \/ StoreProfile(t)

SpecConcurrent == ConcurrentInit /\ [][ConcurrentNext]_vars

AllDone == \A t \in Threads : threads[t].pc = "done"

\* The known items of a call's list.
KnownOf(t) == known_items(catalog_ids, threads[t].interacted_item_ids)

\* C27: concurrent update_user_profile calls on the shared recommender do
\* not interleave their read-modify-write steps on a popularity counter:
\* when the calls have returned, every counter has risen by the number of
\* times the calls named the item (by 2 for an item both name once), and a
\* user's stored profile is the one written by one of the calls in full.
C27_NoLostUpdate ==
    AllDone =>
        /\ \A x \in Range(catalog_ids) :
              popularity_get(item_popularity, x) =
                  LET n[S \in SUBSET Threads] ==
                          IF S = {} THEN 0
                          ELSE LET t == CHOOSE t \in S : TRUE
                               IN  TimesNamed(KnownOf(t), x) + n[S \ {t}]
                  IN  n[Threads]
        /\ \A u \in DOMAIN user_profiles :
              \E t \in Threads :
                  /\ threads[t].user_id = u
                  /\ KnownOf(t) # <<>>
                  /\ user_profiles[u] = normalized_mean(EmbeddingsOf(KnownOf(t)))

\* The profile is stored by a single assignment, so it is always the
\* profile of one call in full.
ProfileOfOneCall ==
    \A u \in DOMAIN user_profiles :
        \E t \in Threads :
            /\ threads[t].user_id = u
            /\ KnownOf(t) # <<>>
            /\ user_profiles[u] = normalized_mean(EmbeddingsOf(KnownOf(t)))

=============================================================================
